---- MODULE Spec2Model ----
(***************************************************************************)
(* Verification model of the extraction-and-retrieval core of              *)
(* literature_batch_scripts: the RAG builders' ingestion into the vector   *)
(* stores (scripts/rag/*_rag_*.py), the hybrid searcher's merge and the    *)
(* section-aware chunker.                                                  *)
(***************************************************************************)
EXTENDS Integers, Sequences, FiniteSets, TLC

(***************************************************************************)
(* Bounds of the model.                                                    *)
(***************************************************************************)
\* Chunks of the larger paper ("p1"); the smaller paper has one fewer.
MaxChunks == 2
\* Records per remote upsert call.  The code uploads 100 records per call
\* (batch_size = 100); the model scales the batch down so that a paper of
\* MaxChunks chunks still needs more than one call.
BatchSize == 1

(***************************************************************************)
(* Program constants: the embedding dimensionality of each model.          *)
(***************************************************************************)
DimMiniLM == 384
DimCLIP == 512
DimCLIPLarge == 768
DimBGE == 1024

Workers == {1, 2}
Papers == {"p1", "p2"}
Backends == {"chroma", "pinecone"}
\* The five builder classes of scripts/rag.
Kinds == {"bge", "clip", "improved", "paper", "multimodal"}
\* Builders that keep a processed-papers list.
Tracking == {"bge", "clip", "improved", "paper"}

VARIABLES
    kind,             \* the builder class both workers run
    db,               \* db_type ("pinecone" for multimodal: use_pinecone)
    dupRaises,        \* the installed chromadb raises on add of an existing id
    exists,           \* exists[b]: the collection / index is in the store
    recs,             \* recs[b][id]: number of records stored under id
    cdim,             \* cdim[b]: dimensionality of the collection, 0 = not fixed yet
    processedFile,    \* the processed-papers file of the store directory
    pc,               \* pc[w]: where worker w stands
    cur,              \* cur[w]: paper_id of w's current / last process_paper call
    uploaded,         \* uploaded[w]: records of the current call already upserted
    processed_papers, \* processed_papers[w]: self.processed_papers
    hasColl,          \* hasColl[w]: VectorDBManager.collection / .index is set
    stale,            \* stale[w]: w's chroma collection handle names a deleted collection
    embedding_dim,    \* embedding_dim[w]: dimensionality of w's embedding model
    result,           \* result[w]: outcome of w's last process_paper call
    ingested,         \* ingested[w]: papers this builder instance stored completely
    succeeded,        \* papers some process_paper call stored completely
    reingest,         \* reingest[w]: w's current / last call is for a paper of ingested[w]
    failedPartial     \* papers a call of which failed or was interrupted after it
                      \* had uploaded some records, before any call stored them all

ingestVars == <<kind, db, dupRaises, exists, recs, cdim, processedFile, pc, cur,
                uploaded, processed_papers, hasColl, stale, embedding_dim,
                result, ingested, succeeded, reingest, failedPartial>>

VARIABLES
    text_rag,         \* HybridSearcher.text_rag is set (its construction did not fail)
    image_rag,        \* HybridSearcher.image_rag is set
    mode,             \* arguments of search_comprehensive
    k,
    text_weight,      \* in hundredths
    image_weight,
    hybrid_pc,        \* where the search_comprehensive call stands
    text_hits,        \* what text_rag.search returned
    image_hits,       \* what image_rag.search_by_text returned
    results,          \* the local results, and the list returned at the end
    merged,           \* the local merged of _merge_and_rank_results, sorted
    final_results     \* the local final_results of _merge_and_rank_results

hybridVars == <<text_rag, image_rag, mode, k, text_weight, image_weight, hybrid_pc,
                text_hits, image_hits, results, merged, final_results>>

VARIABLES
    search_cls,       \* the class whose search is called
    search_db,        \* its db_type
    search_pc,        \* where the search call stands
    store_answer,     \* what the store's query returned: distances or scores, hundredths
    formatted_results \* what search returns

searchVars == <<search_cls, search_db, search_pc, store_answer, formatted_results>>

VARIABLES
    text,             \* argument of chunk_by_sections: the lines, each a sequence of words
    chunk_size,
    overlap,
    chunk_pc,         \* where the chunk_by_sections call stands
    line_no,          \* the line the loop is at
    current_section,
    section_text,
    chunks            \* the local chunks, and the list returned at the end

chunkVars == <<text, chunk_size, overlap, chunk_pc, line_no, current_section,
               section_text, chunks>>

VARIABLES
    pdfplumber_available, \* PDFPLUMBER_AVAILABLE: the import of pdfplumber succeeded
    pdf,              \* the PDF file at pdf_path: its state on disk and its pages
    extract_pc,       \* "off", "ready" (no call made yet), "returned" or "raised"
    called,           \* the function of text_extractor.py that was called
    max_pages,        \* argument max_pages, 0 for None
    failed,           \* steps of extract_text_and_images whose exception was caught
    text_content,     \* the text returned
    images,           \* the image list (argument of a ranking call, or returned)
    captions,         \* the caption list (argument of a ranking call, or returned)
    prioritized,      \* the list a ranking or matching call returned
    featured_image    \* the featured image returned, NoImage for None

extractVars == <<pdfplumber_available, pdf, extract_pc, called, max_pages, failed,
                 text_content, images, captions, prioritized, featured_image>>

VARIABLES
    batch_loop,       \* the batch loop that runs
    batch_pc,         \* "off", "loop", "done" or "aborted"
    max_workers,      \* threads of the executor (1 for the sequential loops)
    next_item,        \* index of the item the sequential loop is at
    task,             \* task[i]: where paper i of the batch stands
    counts            \* the counters of the loop

batchVars == <<batch_loop, batch_pc, max_workers, next_item, task, counts>>

VARIABLES
    pinecone_cls,     \* the class whose Pinecone initialisation runs
    api_key,          \* PINECONE_API_KEY is set
    index_listed,     \* the service lists the index of the class
    index_ready,      \* the service reports the index ready
    pinecone_pc,      \* where the initialisation stands
    slept             \* seconds spent in time.sleep, counted up to MaxSlept

pineconeVars == <<pinecone_cls, api_key, index_listed, index_ready, pinecone_pc, slept>>

VARIABLES
    embed_cls,        \* the class whose image-embedding generation is called
    image_files,      \* the image at each path of the argument: "ok", "missing", "corrupt"
    embed_pc,         \* "off", "loop" or "returned"
    embed_at,         \* the position the for loop is at
    loaded,           \* the local list the loop fills
    embeddings        \* the array returned

embedVars == <<embed_cls, image_files, embed_pc, embed_at, loaded, embeddings>>

VARIABLES
    use_semantic_chunking, \* argument of the TextRAGBGEM3 constructor
    store_db,         \* its db_type
    store_paper_id,   \* argument paper_id of process_paper
    custom_metadata,  \* argument metadata of process_paper: None or a dict
    caption_count,    \* captions of the paper long enough to become chunks
    store_pc,         \* "off", "extracted", "chunked" or "stored"
    paper_chunks,     \* the local chunks of process_paper
    stored_records    \* the records written to the store: id and metadata

storeVars == <<use_semantic_chunking, store_db, store_paper_id, custom_metadata,
               caption_count, store_pc, paper_chunks, stored_records>>

VARIABLES
    resume_pc,        \* "off", "running", "interrupted" or "resumed"
    fetched,          \* number of items fetched from Zotero; item i has key i
    pool_size,        \* args.workers
    processed_keys,   \* the local processed_keys of the run, in completion order
    checkpoint_keys,  \* processed_keys of the checkpoint file
    submitted         \* keys of the items the resumed run submits, in order

resumeVars == <<resume_pc, fetched, pool_size, processed_keys, checkpoint_keys, submitted>>

laterVars == <<pineconeVars, embedVars, storeVars, resumeVars>>

nonIngestVars == <<hybridVars, searchVars, chunkVars, extractVars, batchVars, laterVars>>

vars == <<ingestVars, hybridVars, searchVars, chunkVars, extractVars, batchVars, laterVars>>

(***************************************************************************)
(* Chunk ids: paper_id + ordinal.                                          *)
(***************************************************************************)
\* Number of chunks the (deterministic) extraction and chunking of a paper yield.
NChunks(p) == IF p = "p1" THEN MaxChunks ELSE MaxChunks - 1

\* f"{paper_id}#T{i:04d}", f"{paper_id}_chunk_{i}", f"{paper_id}_{i}",
\* f"{paper_id}_text_{i}", f"{paper_id}#I{i:03d}": the paper id and the ordinal.
chunk_id(p, i) == <<p, i>>

ChunkIds == {chunk_id(p, i) : p \in Papers, i \in 0..(MaxChunks - 1)}

\* The ids of the chunks numbered from..(to - 1) of paper p.
IdsOf(p, from, to) == {chunk_id(p, i) : i \in from..(to - 1)}

PaperIds(p) == IdsOf(p, 0, NChunks(p))

NoRecs == [id \in ChunkIds |-> 0]

\* Total number of records of a collection.
RECURSIVE SumOver(_, _)
SumOver(f, S) == IF S = {} THEN 0
                 ELSE LET x == CHOOSE y \in S : TRUE IN f[x] + SumOver(f, S \ {x})

Count(b) == SumOver(recs[b], ChunkIds)

\* The stores a builder of this configuration writes.
UsesChroma == db = "chroma" \/ kind = "multimodal"
UsesPinecone == db = "pinecone"
Written == {b \in Backends : (b = "chroma" /\ UsesChroma) \/ (b = "pinecone" /\ UsesPinecone)}

\* The dimensionalities a builder's embedding model can have.
ModelDims == CASE kind = "bge" -> {DimBGE}
               [] kind = "clip" -> {DimCLIP, DimCLIPLarge}
               [] kind = "improved" -> {DimCLIP}
               [] kind = "paper" -> {DimMiniLM, DimCLIP}
               [] OTHER -> {DimCLIP}

(***************************************************************************)
(* Construction: _init_vector_db / create_collection, _load_processed_papers *)
(***************************************************************************)
\* Whether opening the collection deletes an existing one first.
DeletesExisting(cls, b) == \/ cls = "improved"
                           \/ cls = "paper" /\ b = "chroma"

\* The records of backend b after a builder of class cls opened (created or
\* got) its collection.
OpenedRecs(cls, b) == IF exists[b] /\ DeletesExisting(cls, b) THEN NoRecs ELSE recs[b]

\* The dimensionality of the collection of backend b after a builder of class
\* cls with a model of dimensionality d opened it: a local collection takes the
\* dimensionality of the first vectors added, a remote index is created with one.
OpenedDim(cls, b, d) ==
    IF exists[b] /\ ~DeletesExisting(cls, b) THEN cdim[b]
    ELSE IF b = "chroma" THEN 0
    ELSE IF cls = "paper" THEN DimMiniLM
    ELSE d

\* Handles of the other workers go stale when w replaces the chroma collection.
StaleAfterOpen(w, cls, B) ==
    [v \in Workers |->
        IF v = w THEN FALSE
        ELSE stale[v] \/ ("chroma" \in B /\ exists["chroma"] /\ DeletesExisting(cls, "chroma"))]

\* The backends the constructor opens (VectorDBManager opens none: it does so
\* at the first add_documents).
OpenedAtInit == IF kind = "paper" THEN {} ELSE Written

load_processed_papers == IF kind \in Tracking THEN processedFile ELSE {}

Construct(w) ==
    /\ pc[w] = "unbuilt"
    /\ \E d \in ModelDims :
        /\ embedding_dim' = [embedding_dim EXCEPT ![w] = d]
        /\ recs' = [b \in Backends |-> IF b \in OpenedAtInit THEN OpenedRecs(kind, b) ELSE recs[b]]
        /\ cdim' = [b \in Backends |-> IF b \in OpenedAtInit THEN OpenedDim(kind, b, d) ELSE cdim[b]]
    /\ exists' = [b \in Backends |-> exists[b] \/ b \in OpenedAtInit]
    /\ stale' = StaleAfterOpen(w, kind, OpenedAtInit)
    /\ hasColl' = [hasColl EXCEPT ![w] = kind # "paper"]
    /\ processed_papers' = [processed_papers EXCEPT ![w] = load_processed_papers]
    /\ pc' = [pc EXCEPT ![w] = "idle"]
    /\ result' = [result EXCEPT ![w] = "none"]
    /\ ingested' = [ingested EXCEPT ![w] = {}]
    /\ reingest' = [reingest EXCEPT ![w] = FALSE]
    /\ UNCHANGED nonIngestVars
    /\ UNCHANGED <<kind, db, dupRaises, processedFile, cur, uploaded, succeeded,
                   failedPartial>>

(***************************************************************************)
(* process_paper / process_pdf                                             *)
(***************************************************************************)
\* The call returns at once for a paper of self.processed_papers.
Skips(w, p) == kind \in Tracking /\ p \in processed_papers[w]

\* Entry of process_paper: skip, or extract and chunk successfully.
Begin(w, p) ==
    /\ pc[w] = "idle"
    /\ cur' = [cur EXCEPT ![w] = p]
    /\ uploaded' = [uploaded EXCEPT ![w] = 0]
    /\ IF Skips(w, p)
       THEN /\ result' = [result EXCEPT ![w] = "skipped"]
            /\ pc' = pc
       ELSE /\ result' = [result EXCEPT ![w] = "none"]
            /\ pc' = [pc EXCEPT ![w] = "extracted"]
    /\ reingest' = [reingest EXCEPT ![w] = p \in ingested[w]]
    /\ UNCHANGED nonIngestVars
    /\ UNCHANGED <<kind, db, dupRaises, exists, recs, cdim, processedFile,
                   processed_papers, hasColl, stale, embedding_dim, ingested,
                   succeeded, failedPartial>>

\* Extraction raises (or yields too little text): the except branch returns an error.
ExtractFail(w, p) ==
    /\ pc[w] = "idle"
    /\ ~Skips(w, p)
    /\ cur' = [cur EXCEPT ![w] = p]
    /\ uploaded' = [uploaded EXCEPT ![w] = 0]
    /\ result' = [result EXCEPT ![w] = "error"]
    /\ reingest' = [reingest EXCEPT ![w] = p \in ingested[w]]
    /\ UNCHANGED nonIngestVars
    /\ UNCHANGED <<kind, db, dupRaises, exists, recs, cdim, processedFile, pc,
                   processed_papers, hasColl, stale, embedding_dim, ingested,
                   succeeded, failedPartial>>

\* Variant of ChromaAdded that stores one more record under every id it is given.
ChromaAppended(r, ids) == [id \in ChunkIds |-> IF id \in ids THEN r[id] + 1 ELSE r[id]]

\* collection.add(ids=...): the records of a collection r after the add of ids
\* none of which raises (an id already stored is left as it is).
ChromaAdded(r, ids) == [id \in ChunkIds |-> IF id \in ids /\ r[id] = 0 THEN 1 ELSE r[id]]

\* index.upsert(vectors=batch): a record per id, replacing the one stored.
PineconeUpserted(r, ids) == [id \in ChunkIds |-> IF id \in ids THEN 1 ELSE r[id]]

\* The collection a VectorDBManager opens at its first add_documents.
OpensAtAdd(w) == kind = "paper" /\ ~hasColl[w]

\* What the call does once its last store call returned.
AfterStore(w) == IF kind \in Tracking THEN "stored" ELSE "idle"

\* The local store call of _store_chunks / _store_in_db / add_documents /
\* process_paper: one collection.add of all the paper's chunks.
StoreChroma(w) ==
    /\ pc[w] = "extracted"
    /\ UsesChroma
    /\ LET p == cur[w]
           opens == OpensAtAdd(w)
           r0 == IF opens THEN OpenedRecs(kind, "chroma") ELSE recs["chroma"]
           d0 == IF opens THEN OpenedDim(kind, "chroma", embedding_dim[w]) ELSE cdim["chroma"]
           isStale == stale[w] /\ ~opens
           mismatch == d0 # 0 /\ d0 # embedding_dim[w]
           dup == dupRaises /\ \E id \in PaperIds(p) : r0[id] > 0
           raises == isStale \/ mismatch \/ dup
           more == kind = "multimodal" /\ UsesPinecone
       IN  /\ recs' = [recs EXCEPT !["chroma"] =
                          IF raises THEN r0 ELSE ChromaAdded(r0, PaperIds(p))]
           /\ cdim' = [cdim EXCEPT !["chroma"] =
                          IF raises THEN d0 ELSE embedding_dim[w]]
           /\ exists' = [exists EXCEPT !["chroma"] = exists["chroma"] \/ opens]
           /\ stale' = IF opens THEN StaleAfterOpen(w, kind, {"chroma"}) ELSE stale
           /\ hasColl' = [hasColl EXCEPT ![w] = TRUE]
           /\ pc' = [pc EXCEPT ![w] =
                        IF raises THEN "idle" ELSE IF more THEN "storing" ELSE AfterStore(w)]
           /\ result' = [result EXCEPT ![w] =
                        IF raises THEN "error"
                        ELSE IF ~more /\ kind \notin Tracking THEN "ok" ELSE "none"]
           /\ ingested' = [ingested EXCEPT ![w] =
                        IF ~raises /\ ~more THEN ingested[w] \cup {p} ELSE ingested[w]]
           /\ succeeded' = IF ~raises /\ ~more THEN succeeded \cup {p} ELSE succeeded
    /\ UNCHANGED nonIngestVars
    /\ UNCHANGED <<kind, db, dupRaises, processedFile, cur, uploaded,
                   processed_papers, embedding_dim, reingest, failedPartial>>

\* failedPartial after w's call fails or is interrupted where it stands: the
\* call had uploaded some of the paper's records when it is in its upload loop.
FailedAfter(w) ==
    IF pc[w] = "storing" /\ cur[w] \notin succeeded
    THEN failedPartial \cup {cur[w]} ELSE failedPartial

\* One call of the remote upload loop: index.upsert(vectors=batch).
UpsertBatch(w) ==
    /\ UsesPinecone
    /\ pc[w] = IF kind = "multimodal" THEN "storing"
               ELSE IF uploaded[w] = 0 THEN "extracted" ELSE "storing"
    /\ LET p == cur[w]
           n == NChunks(p)
           opens == OpensAtAdd(w)
           d0 == IF opens THEN OpenedDim(kind, "pinecone", embedding_dim[w]) ELSE cdim["pinecone"]
           to == IF uploaded[w] + BatchSize < n THEN uploaded[w] + BatchSize ELSE n
           raises == d0 # 0 /\ d0 # embedding_dim[w]
           last == to = n
           swallowed == kind = "multimodal"
       IN  /\ recs' = [recs EXCEPT !["pinecone"] =
                          IF raises THEN @ ELSE PineconeUpserted(@, IdsOf(p, uploaded[w], to))]
           /\ cdim' = [cdim EXCEPT !["pinecone"] = d0]
           /\ exists' = [exists EXCEPT !["pinecone"] = exists["pinecone"] \/ opens]
           /\ hasColl' = [hasColl EXCEPT ![w] = TRUE]
           /\ uploaded' = [uploaded EXCEPT ![w] = IF raises THEN @ ELSE to]
           /\ pc' = [pc EXCEPT ![w] =
                        IF raises THEN "idle" ELSE IF last THEN AfterStore(w) ELSE "storing"]
           /\ result' = [result EXCEPT ![w] =
                        IF raises THEN (IF swallowed THEN "partial" ELSE "error")
                        ELSE IF last /\ kind \notin Tracking THEN "ok" ELSE "none"]
           /\ ingested' = [ingested EXCEPT ![w] =
                        IF ~raises /\ last THEN ingested[w] \cup {p} ELSE ingested[w]]
           /\ succeeded' = IF ~raises /\ last THEN succeeded \cup {p} ELSE succeeded
           /\ failedPartial' = IF raises THEN FailedAfter(w) ELSE failedPartial
    /\ UNCHANGED nonIngestVars
    /\ UNCHANGED <<kind, db, dupRaises, processedFile, cur, processed_papers,
                   stale, embedding_dim, reingest>>

\* Variant of UpsertFail in which the failed call still records the paper as
\* processed.
UpsertFailRecorded(w) ==
    /\ UsesPinecone
    /\ pc[w] = IF kind = "multimodal" THEN "storing"
               ELSE IF uploaded[w] = 0 THEN "extracted" ELSE "storing"
    /\ pc' = [pc EXCEPT ![w] = "idle"]
    /\ result' = [result EXCEPT ![w] = IF kind = "multimodal" THEN "partial" ELSE "error"]
    /\ failedPartial' = FailedAfter(w)
    /\ processed_papers' = [processed_papers EXCEPT ![w] = @ \cup {cur[w]}]
    /\ processedFile' = processedFile \cup {cur[w]}
    /\ UNCHANGED nonIngestVars
    /\ UNCHANGED <<kind, db, dupRaises, exists, recs, cdim, cur,
                   uploaded, hasColl, stale, embedding_dim,
                   ingested, succeeded, reingest>>

\* A remote upsert call raises (timeout, rate limit): nothing of the batch is
\* stored.  The builders with an except branch around the whole call return an
\* error; MultimodalRAGBuilder swallows it and returns normally.
UpsertFail(w) ==
    /\ UsesPinecone
    /\ pc[w] = IF kind = "multimodal" THEN "storing"
               ELSE IF uploaded[w] = 0 THEN "extracted" ELSE "storing"
    /\ pc' = [pc EXCEPT ![w] = "idle"]
    /\ result' = [result EXCEPT ![w] = IF kind = "multimodal" THEN "partial" ELSE "error"]
    /\ failedPartial' = FailedAfter(w)
    /\ UNCHANGED nonIngestVars
    /\ UNCHANGED <<kind, db, dupRaises, exists, recs, cdim, processedFile, cur,
                   uploaded, processed_papers, hasColl, stale, embedding_dim,
                   ingested, succeeded, reingest>>

\* The processed-papers file after the builder recorded paper p: the text file
\* of TextRAGBGEM3 / ImageRAGCLIP is appended to, the JSON file of
\* ImprovedRAGBuilder / PaperRAGBuilder is rewritten from the builder's own set.
save_processed_paper(w, p) ==
    IF kind \in {"bge", "clip"} THEN processedFile \cup {p}
    ELSE processed_papers[w] \cup {p}

\* "Mark as processed" and the normal return of process_paper.
MarkProcessed(w) ==
    /\ pc[w] = "stored"
    /\ processed_papers' = [processed_papers EXCEPT ![w] = @ \cup {cur[w]}]
    /\ processedFile' = save_processed_paper(w, cur[w])
    /\ pc' = [pc EXCEPT ![w] = "idle"]
    /\ result' = [result EXCEPT ![w] = "ok"]
    /\ UNCHANGED nonIngestVars
    /\ UNCHANGED <<kind, db, dupRaises, exists, recs, cdim, cur, uploaded,
                   hasColl, stale, embedding_dim, ingested, succeeded, reingest,
                   failedPartial>>

\* The process of worker w is interrupted (killed): its builder is gone, the
\* store directory stays as it is.
Crash(w) ==
    /\ pc[w] # "unbuilt"
    /\ pc' = [pc EXCEPT ![w] = "unbuilt"]
    /\ processed_papers' = [processed_papers EXCEPT ![w] = {}]
    /\ hasColl' = [hasColl EXCEPT ![w] = FALSE]
    /\ stale' = [stale EXCEPT ![w] = FALSE]
    /\ ingested' = [ingested EXCEPT ![w] = {}]
    /\ result' = [result EXCEPT ![w] = IF pc[w] = "idle" THEN "none" ELSE "interrupted"]
    /\ uploaded' = [uploaded EXCEPT ![w] = 0]
    /\ failedPartial' = FailedAfter(w)
    /\ UNCHANGED nonIngestVars
    /\ UNCHANGED <<kind, db, dupRaises, exists, recs, cdim, processedFile, cur,
                   embedding_dim, succeeded, reingest>>

IngestInit ==
    /\ kind \in Kinds
    /\ db \in Backends
    /\ dupRaises \in BOOLEAN
    /\ exists = [b \in Backends |-> FALSE]
    /\ recs = [b \in Backends |-> NoRecs]
    /\ cdim = [b \in Backends |-> 0]
    /\ processedFile = {}
    /\ pc = [w \in Workers |-> "unbuilt"]
    /\ cur = [w \in Workers |-> "p1"]
    /\ uploaded = [w \in Workers |-> 0]
    /\ processed_papers = [w \in Workers |-> {}]
    /\ hasColl = [w \in Workers |-> FALSE]
    /\ stale = [w \in Workers |-> FALSE]
    /\ embedding_dim = [w \in Workers |-> DimCLIP]
    /\ result = [w \in Workers |-> "none"]
    /\ ingested = [w \in Workers |-> {}]
    /\ succeeded = {}
    /\ reingest = [w \in Workers |-> FALSE]
    /\ failedPartial = {}

WorkerStep(w) ==
    \/ Construct(w)
    \/ \E p \in Papers : Begin(w, p)
    \/ \E p \in Papers : ExtractFail(w, p)
    \/ StoreChroma(w)
    \/ UpsertBatch(w)
    \/ UpsertFail(w)
    \/ MarkProcessed(w)
    \/ Crash(w)

(***************************************************************************)
(* HybridSearcher.search_comprehensive and _merge_and_rank_results.        *)
(* Scores and weights are in hundredths, weighted scores in ten-thousandths. *)
(***************************************************************************)
\* Hits an adapter's answer holds at most.
MaxHits == 2
\* Largest k of a search_comprehensive call.
MaxK == 3

Modes == {"text", "image", "hybrid"}
\* (text_weight, image_weight): the defaults, and equal weights.
Weights == {<<65, 35>>, <<50, 50>>}
HitScores == {80, 90, 95}
Hit == [paper_id : Papers, score : HitScores]

Min(a, b) == IF a < b THEN a ELSE b
SetMax(S) == CHOOSE x \in S : \A y \in S : x >= y

\* The adapters answer with their hits in descending order of score.
Descending(hits) == \A i \in 1..(Len(hits) - 1) : hits[i].score >= hits[i + 1].score

\* The answers an adapter asked for n hits can give.
AdapterAnswers(n) ==
    {hits \in UNION {[1..m -> Hit] : m \in 0..Min(n, MaxHits)} : Descending(hits)}

\* The loop that tags the hits of one modality: modality and weighted_score.
enriched(hits, modality, weight) ==
    [i \in 1..Len(hits) |->
        [id |-> <<modality, i>>,
         paper_id |-> hits[i].paper_id,
         score |-> hits[i].score,
         modality |-> modality,
         weighted_score |-> IF mode = "hybrid" THEN hits[i].score * weight
                            ELSE hits[i].score * 100]]

\* text_rag.search(query, k=k*2) and the loop over its results.
TextSearch(hits) ==
    /\ hybrid_pc = "text"
    /\ hits \in (IF mode \in {"text", "hybrid"} /\ text_rag
                 THEN AdapterAnswers(k * 2) ELSE {<<>>})
    /\ text_hits' = hits
    /\ results' = results \o enriched(hits, "text", text_weight)
    /\ hybrid_pc' = "image"
    /\ UNCHANGED <<text_rag, image_rag, mode, k, text_weight, image_weight,
                   image_hits, merged, final_results>>
    /\ UNCHANGED <<ingestVars, searchVars, chunkVars, extractVars, batchVars, laterVars>>

\* image_rag.search_by_text(query, k=k*2) and the loop over its results.
ImageSearch(hits) ==
    /\ hybrid_pc = "image"
    /\ hits \in (IF mode \in {"image", "hybrid"} /\ image_rag
                 THEN AdapterAnswers(k * 2) ELSE {<<>>})
    /\ image_hits' = hits
    /\ results' = results \o enriched(hits, "image", image_weight)
    /\ hybrid_pc' = "rank"
    /\ UNCHANGED <<text_rag, image_rag, mode, k, text_weight, image_weight,
                   text_hits, merged, final_results>>
    /\ UNCHANGED <<ingestVars, searchVars, chunkVars, extractVars, batchVars, laterVars>>

\* The keys of paper_groups, in the order the loop inserts them.
RECURSIVE paper_order(_)
paper_order(rs) ==
    IF rs = <<>> THEN <<>>
    ELSE LET front == paper_order(SubSeq(rs, 1, Len(rs) - 1))
             p == rs[Len(rs)].paper_id
         IN  IF \E i \in 1..Len(front) : front[i] = p THEN front ELSE Append(front, p)

\* paper_groups[p]['text_results'] / ['image_results'].
group_results(rs, p, modality) ==
    LET InGroup(r) == r.paper_id = p /\ r.modality = modality
    IN  SelectSeq(rs, InGroup)

weighted_scores(group) == {group[i].weighted_score : i \in 1..Len(group)}

\* Variant of combined_score that takes the higher of the two modalities' best.
combined_as_max(text_results, image_results) ==
    SetMax({IF text_results # <<>> THEN SetMax(weighted_scores(text_results)) ELSE 0,
            IF image_results # <<>> THEN SetMax(weighted_scores(image_results)) ELSE 0})

\* combined_score of a paper's group.
combined_score(text_results, image_results) ==
    (IF text_results # <<>> THEN SetMax(weighted_scores(text_results)) ELSE 0)
    + (IF image_results # <<>> THEN SetMax(weighted_scores(image_results)) ELSE 0)

\* merged_result of paper p; best_text / best_image are <<>> for None.
merged_result(rs, p) ==
    LET text_results == group_results(rs, p, "text")
        image_results == group_results(rs, p, "image")
    IN  [paper_id |-> p,
         combined_score |-> combined_score(text_results, image_results),
         text_matches |-> Len(text_results),
         image_matches |-> Len(image_results),
         best_text |-> IF text_results # <<>> THEN <<text_results[1]>> ELSE <<>>,
         best_image |-> IF image_results # <<>> THEN <<image_results[1]>> ELSE <<>>]

\* merged before it is sorted.
merged_results(rs) ==
    LET order == paper_order(rs)
    IN  [i \in 1..Len(order) |-> merged_result(rs, order[i])]

\* Variant of order_desc that leaves the order as it is.
order_kept(keys) == [i \in 1..Len(keys) |-> i]

\* sorted(..., reverse=True): the order (a sequence of positions) in which a
\* stable sort by descending key puts the items with these keys.
RECURSIVE order_desc(_)
order_desc(keys) ==
    IF keys = <<>> THEN <<>>
    ELSE LET n == Len(keys)
             front == order_desc(SubSeq(keys, 1, n - 1))
             j == Cardinality({i \in 1..(n - 1) : keys[front[i]] >= keys[n]})
         IN  SubSeq(front, 1, j) \o <<n>> \o SubSeq(front, j + 1, n - 1)

sorted_desc(items, keys) ==
    LET order == order_desc(keys)
    IN  [i \in 1..Len(items) |-> items[order[i]]]

\* m['best_text']['combined_score'] = m['combined_score'].
with_combined(r, c) ==
    [id |-> r.id, paper_id |-> r.paper_id, score |-> r.score, modality |-> r.modality,
     weighted_score |-> r.weighted_score, combined_score |-> c]

\* Variant of emits_image that also takes a paper with as many image hits as
\* text hits.
emits_image_at_least(m) ==
    m.best_image # <<>> /\ (m.best_text = <<>> \/ m.image_matches >= m.text_matches)

\* The condition under which the loop appends the best image hit of m.
emits_image(m) ==
    m.best_image # <<>> /\ (m.best_text = <<>> \/ m.image_matches > m.text_matches)

\* The loop "for m in merged[:k]" from position i on, final_results being acc.
RECURSIVE expanded(_, _, _)
expanded(ms, i, acc) ==
    IF i > Len(ms) THEN acc
    ELSE LET m == ms[i]
             a1 == IF m.best_text # <<>>
                   THEN Append(acc, with_combined(m.best_text[1], m.combined_score))
                   ELSE acc
             a2 == IF emits_image(m)
                   THEN Append(a1, with_combined(m.best_image[1], m.combined_score))
                   ELSE a1
         IN  IF Len(a2) >= k THEN a2 ELSE expanded(ms, i + 1, a2)

\* The end of search_comprehensive: _merge_and_rank_results in hybrid mode
\* with some result, the simple sort otherwise.
Rank ==
    /\ hybrid_pc = "rank"
    /\ IF mode = "hybrid" /\ Len(results) > 0
       THEN LET ms == merged_results(results)
                sorted == sorted_desc(ms, [i \in 1..Len(ms) |-> ms[i].combined_score])
                final == expanded(SubSeq(sorted, 1, Min(k, Len(sorted))), 1, <<>>)
            IN  /\ merged' = sorted
                /\ final_results' = final
                /\ results' = SubSeq(final, 1, Min(k, Len(final)))
       ELSE LET sorted == sorted_desc(results,
                              [i \in 1..Len(results) |-> results[i].weighted_score])
            IN  /\ results' = SubSeq(sorted, 1, Min(k, Len(sorted)))
                /\ UNCHANGED <<merged, final_results>>
    /\ hybrid_pc' = "done"
    /\ UNCHANGED <<text_rag, image_rag, mode, k, text_weight, image_weight,
                   text_hits, image_hits>>
    /\ UNCHANGED <<ingestVars, searchVars, chunkVars, extractVars, batchVars, laterVars>>

\* No search_comprehensive call is under way.
HybridIdle ==
    /\ text_rag = TRUE /\ image_rag = TRUE
    /\ mode = "hybrid" /\ k = 1
    /\ text_weight = 65 /\ image_weight = 35
    /\ hybrid_pc = "idle"
    /\ text_hits = <<>> /\ image_hits = <<>>
    /\ results = <<>> /\ merged = <<>> /\ final_results = <<>>

\* A search_comprehensive call begins, on a searcher either of whose adapters
\* may have failed to initialise.
HybridInit ==
    /\ text_rag \in BOOLEAN /\ image_rag \in BOOLEAN
    /\ mode \in Modes /\ k \in 1..MaxK
    /\ \E w \in Weights : text_weight = w[1] /\ image_weight = w[2]
    /\ hybrid_pc = "text"
    /\ text_hits = <<>> /\ image_hits = <<>>
    /\ results = <<>> /\ merged = <<>> /\ final_results = <<>>

(***************************************************************************)
(* The search operations of the builders: what they report for what the    *)
(* store answered.  Distances and scores are in hundredths.                *)
(***************************************************************************)
\* Matches a store's answer holds at most.
MaxMatches == 2

\* Cosine distances of the local store, similarity scores of the remote one.
StoreDistances == {0, 5, 40, 130}
StoreScores == {-30, 60, 95, 100}

\* The backend a search of class cls queries: MultimodalRAGBuilder.search
\* always queries its local collection.
queried_db(cls, b) == IF cls = "multimodal" THEN "chroma" ELSE b

\* The answers of a store: nearest first.
StoreAnswers(b) ==
    IF b = "chroma"
    THEN {a \in UNION {[1..m -> StoreDistances] : m \in 0..MaxMatches} :
             \A i \in 1..(Len(a) - 1) : a[i] <= a[i + 1]}
    ELSE {a \in UNION {[1..m -> StoreScores] : m \in 0..MaxMatches} :
             \A i \in 1..(Len(a) - 1) : a[i] >= a[i + 1]}

\* The entry of formatted_results for a match the store of backend b reported
\* with the value v (a distance of the local store, a score of the remote one).
formatted_result(cls, b, v) ==
    CASE cls \in {"bge", "clip", "improved"} ->
            [score |-> IF b = "chroma" THEN 100 - v ELSE v]
      [] cls = "paper" ->
            [distance |-> IF b = "chroma" THEN v ELSE 100 - v]
      [] OTHER ->
            [distance |-> v, similarity |-> 100 - v]

\* search / _search_by_embedding: query the store and format its answer.
Search(answer) ==
    /\ search_pc = "idle"
    /\ answer \in StoreAnswers(queried_db(search_cls, search_db))
    /\ store_answer' = answer
    /\ formatted_results' =
          [i \in 1..Len(answer) |->
              formatted_result(search_cls, queried_db(search_cls, search_db), answer[i])]
    /\ search_pc' = "done"
    /\ UNCHANGED <<search_cls, search_db>>
    /\ UNCHANGED <<ingestVars, hybridVars, chunkVars, extractVars, batchVars, laterVars>>

\* No search is under way.
SearchIdle ==
    /\ search_cls = "bge" /\ search_db = "chroma"
    /\ search_pc = "off"
    /\ store_answer = <<>> /\ formatted_results = <<>>

\* A builder of some class on some backend, about to be searched.
SearchInit ==
    /\ search_cls \in Kinds /\ search_db \in Backends
    /\ search_pc = "idle"
    /\ store_answer = <<>> /\ formatted_results = <<>>

(***************************************************************************)
(* TextChunker.chunk_by_sections and _split_section.                       *)
(* A text is a sequence of lines, a line a sequence of words.  The word     *)
(* "results" is a section marker; "longword" is a word of 50 characters or *)
(* more, the other words are short.                                        *)
(***************************************************************************)
\* Lines of a text, words of a line, at most.
MaxLines == 2
MaxWords == 2

Words == {"w", "results", "longword"}
ChunkSizes == {1, 2}
Overlaps == {0, 1, 2, 3}

TextLines == UNION {[1..n -> Words] : n \in 0..MaxWords}
\* text.split('\n') has at least one line.
Texts == UNION {[1..n -> TextLines] : n \in 1..MaxLines}

\* The first marker of section_markers that is in the line, "" if there is
\* none or the line has 50 characters or more.
marker_of(line) ==
    IF (\E i \in 1..Len(line) : line[i] = "results")
       /\ ~(\E i \in 1..Len(line) : line[i] = "longword")
    THEN "results" ELSE ""

\* '\n'.join(section_text).split(): the words of the lines, in order.
RECURSIVE words_of(_)
words_of(lines) ==
    IF lines = <<>> THEN <<>> ELSE lines[1] \o words_of(Tail(lines))

\* range(0, n, step) for step > 0, as a sequence.
range_from_zero(n, step) == [j \in 1..((n + step - 1) \div step) |-> (j - 1) * step]

\* _split_section keeping only the windows of full size.
split_section_full_windows(section_content, section_name, size, ovl) ==
    LET words == words_of(section_content)
        n == Len(words)
        step == size - ovl
        starts == IF step > 0 THEN range_from_zero(n, step) ELSE <<>>
        full == SelectSeq(starts, LAMBDA s : s + size <= n)
    IN  [raised |-> n > 0 /\ step = 0,
         chunks |-> [j \in 1..Len(full) |->
                       LET chunk_words == SubSeq(words, full[j] + 1, full[j] + size)
                       IN  [text |-> chunk_words,
                            section |-> section_name,
                            word_count |-> Len(chunk_words),
                            chunk_index |-> j - 1]]]

\* _split_section: raised is TRUE when range() raises ValueError (step 0);
\* a negative step gives an empty range.
split_section(section_content, section_name, size, ovl) ==
    LET words == words_of(section_content)
        n == Len(words)
        step == size - ovl
        starts == IF step > 0 THEN range_from_zero(n, step) ELSE <<>>
    IN  [raised |-> n > 0 /\ step = 0,
         chunks |-> [j \in 1..Len(starts) |->
                       LET chunk_words == SubSeq(words, starts[j] + 1,
                                                 Min(starts[j] + size, n))
                       IN  [text |-> chunk_words,
                            section |-> section_name,
                            word_count |-> Len(chunk_words),
                            chunk_index |-> j - 1]]]

\* One pass of the loop over the lines.
ScanLine ==
    /\ chunk_pc = "scan"
    /\ line_no <= Len(text)
    /\ LET line == text[line_no]
           marker == marker_of(line)
           split == split_section(section_text, current_section, chunk_size, overlap)
       IN  IF marker # "" /\ section_text # <<>> /\ split.raised
           THEN /\ chunk_pc' = "raised"
                /\ chunks' = <<>>
                /\ UNCHANGED <<line_no, current_section, section_text>>
           ELSE /\ chunk_pc' = "scan"
                /\ line_no' = line_no + 1
                /\ chunks' = IF marker # "" /\ section_text # <<>>
                             THEN chunks \o split.chunks ELSE chunks
                /\ current_section' = IF marker # "" THEN marker ELSE current_section
                /\ section_text' = IF marker # "" THEN <<line>>
                                   ELSE Append(section_text, line)
    /\ UNCHANGED <<text, chunk_size, overlap>>
    /\ UNCHANGED <<ingestVars, hybridVars, searchVars, extractVars, batchVars, laterVars>>

\* After the loop: the last section, and the return.
LastSection ==
    /\ chunk_pc = "scan"
    /\ line_no > Len(text)
    /\ LET split == split_section(section_text, current_section, chunk_size, overlap)
       IN  IF section_text # <<>> /\ split.raised
           THEN /\ chunk_pc' = "raised"
                /\ chunks' = <<>>
           ELSE /\ chunk_pc' = "done"
                /\ chunks' = IF section_text # <<>> THEN chunks \o split.chunks ELSE chunks
    /\ UNCHANGED <<text, chunk_size, overlap, line_no, current_section, section_text>>
    /\ UNCHANGED <<ingestVars, hybridVars, searchVars, extractVars, batchVars, laterVars>>

\* No chunk_by_sections call is under way.
ChunkIdle ==
    /\ text = <<<<>>>> /\ chunk_size = 2 /\ overlap = 0
    /\ chunk_pc = "off" /\ line_no = 1
    /\ current_section = "unknown" /\ section_text = <<>> /\ chunks = <<>>

\* A chunk_by_sections call begins.
ChunkInit ==
    /\ text \in Texts /\ chunk_size \in ChunkSizes /\ overlap \in Overlaps
    /\ chunk_pc = "scan" /\ line_no = 1
    /\ current_section = "unknown" /\ section_text = <<>> /\ chunks = <<>>

(***************************************************************************)
(* scripts/text_extractor.py: text, image and caption extraction from a    *)
(* PDF and the choice of the featured image.                               *)
(*                                                                         *)
(* A text is the sequence of its characters, so that the patterns and the  *)
(* keyword tests of the code are computed on it.                           *)
(***************************************************************************)
Alphabet == <<"a", "b", "c", "d", "e", "f", "g", "h", "i", "j", "k", "l", "m", "n", "o", "p", "q", "r", "s", "t", "u", "v", "w", "x", "y", "z">>
Capitals == <<"A", "B", "C", "D", "E", "F", "G", "H", "I", "J", "K", "L", "M", "N", "O", "P", "Q", "R", "S", "T", "U", "V", "W", "X", "Y", "Z">>
Digits == {"0", "1", "2", "3", "4", "5", "6", "7", "8", "9"}

is_letter(c) == \E i \in 1..Len(Alphabet) : c = Alphabet[i] \/ c = Capitals[i]

\* str.lower()
lower(t) ==
    [i \in 1..Len(t) |->
        IF \E j \in 1..Len(Capitals) : Capitals[j] = t[i]
        THEN Alphabet[CHOOSE j \in 1..Len(Capitals) : Capitals[j] = t[i]]
        ELSE t[i]]

\* str.capitalize()
capitalize(t) ==
    [i \in 1..Len(t) |->
        IF i = 1 /\ \E j \in 1..Len(Alphabet) : Alphabet[j] = t[i]
        THEN Capitals[CHOOSE j \in 1..Len(Alphabet) : Alphabet[j] = t[i]]
        ELSE lower(t)[i]]

\* kw in t
contains(t, kw) ==
    \E i \in 1..(Len(t) - Len(kw) + 1) : SubSeq(t, i, i + Len(kw) - 1) = kw

contains_any(t, kws) == \E kw \in kws : contains(t, kw)

\* The positions at which (\d+[A-Za-z]?|[A-Z]\d*), matched without regard to
\* case, can end when it starts at position i of t.
number_ends(t, i) ==
    {j \in i..Len(t) :
        \/ \E m \in i..j :
              /\ \A x \in i..m : t[x] \in Digits
              /\ j = m \/ (j = m + 1 /\ is_letter(t[j]))
        \/ /\ is_letter(t[i])
           /\ \A x \in (i + 1)..j : t[x] \in Digits}

\* The short text blocks a page can hold besides its prose.
FigureOneOverview == <<"F", "i", "g", "u", "r", "e", " ", "1", ":", " ", "O", "v", "e", "r", "v", "i", "e", "w", " ", "o", "f", " ", "t", "h", "e", " ", "p", "i", "p", "e", "l", "i", "n", "e">>
CaptionTexts == {<<"G", "r", "a", "p", "h", "i", "c", "a", "l", " ", "A", "b", "s", "t", "r", "a", "c", "t">>, FigureOneOverview}
\* The texts of the captions of a ranking call.
RankTexts == <<<<"G", "r", "a", "p", "h", "i", "c", "a", "l", " ", "A", "b", "s", "t", "r", "a", "c", "t">>, <<"F", "i", "g", "u", "r", "e", " ", "1", ":", " ", "r", "e", "s", "u", "l", "t", "s">>, <<"F", "i", "g", ".", " ", "7">>>>
\* The texts of the captions of a matching call.
MatchTexts == <<<<"F", "i", "g", ".", " ", "2", ":", " ", "s", "e", "t", "u", "p">>, <<"F", "i", "g", "u", "r", "e", " ", "1", ":", " ", "r", "e", "s", "u", "l", "t", "s">>, <<"F", "i", "g", "u", "r", "e", " ", "3", ":", " ", "l", "a", "y", "o", "u", "t">>>>
\* Every text of the model.
BlockTexts ==
    CaptionTexts \cup {RankTexts[j] : j \in 1..Len(RankTexts)}
                 \cup {MatchTexts[j] : j \in 1..Len(MatchTexts)}

\* caption_patterns, in the order the code tries them: the labels of group 1
\* in lower case (a \s+ inside a label is one blank), what has to follow the
\* label, and the priority.  The patterns for Korean, Japanese and Chinese
\* labels are left out: the texts of the model are English.
caption_patterns ==
    << [labels |-> {<<"f", "i", "g", "u", "r", "e">>, <<"f", "i", "g", ".">>, <<"f", "i", "g">>}, tail |-> "number", score |-> 100],
       [labels |-> {<<"t", "a", "b", "l", "e">>}, tail |-> "number", score |-> 90],
       [labels |-> {<<"s", "c", "h", "e", "m", "e">>, <<"s", "c", "h", "e", "m", "a">>}, tail |-> "number", score |-> 95],
       [labels |-> {<<"c", "h", "a", "r", "t">>, <<"g", "r", "a", "p", "h">>}, tail |-> "number", score |-> 85],
       [labels |-> {<<"s", "u", "p", "p", "l", "e", "m", "e", "n", "t", "a", "r", "y", " ", "f", "i", "g", "u", "r", "e">>, <<"s", "u", "p", "p", ".", " ", "f", "i", "g", ".">>, <<"s", "u", "p", "p", ".", " ", "f", "i", "g">>,
                    <<"s", "u", "p", "p", " ", "f", "i", "g", ".">>, <<"s", "u", "p", "p", " ", "f", "i", "g">>},
        tail |-> "blank", score |-> 70],
       [labels |-> {<<"g", "r", "a", "p", "h", "i", "c", "a", "l", " ", "a", "b", "s", "t", "r", "a", "c", "t">>}, tail |-> "none", score |-> 150] >>

\* The lengths of the prefixes of t that group 1 of pattern p can match so
\* that the whole pattern matches at the start of t.
pattern_matches(t, p) ==
    {n \in 1..Len(t) :
        /\ SubSeq(lower(t), 1, n) \in p.labels
        /\ CASE p.tail = "number" ->
                  \E s \in (n + 1)..Len(t) :
                      /\ \A x \in (n + 1)..s : t[x] = " "
                      /\ \E j \in number_ends(t, s + 1) :
                            j + 1 <= Len(t) /\ t[j + 1] \in {":", ".", " "}
             [] p.tail = "blank" -> n + 1 <= Len(t) /\ t[n + 1] = " "
             [] OTHER -> TRUE}

\* keyword_scores, in the order of the dict (English keywords).
keyword_scores ==
    << [keyword |-> <<"f", "i", "g", "u", "r", "e">>, score |-> 50], [keyword |-> <<"f", "i", "g">>, score |-> 50],
       [keyword |-> <<"t", "a", "b", "l", "e">>, score |-> 40], [keyword |-> <<"s", "c", "h", "e", "m", "e">>, score |-> 45],
       [keyword |-> <<"c", "h", "a", "r", "t">>, score |-> 30], [keyword |-> <<"g", "r", "a", "p", "h">>, score |-> 30],
       [keyword |-> <<"d", "i", "a", "g", "r", "a", "m">>, score |-> 35] >>

\* What a block with text t yields as a caption: priority 0 if none.
\* The first pattern that matches gives the priority and the type; a block
\* no pattern matches takes the highest score of the keywords it contains and
\* the type of the last of them.
text_caption(t) ==
    LET hit == {i \in 1..Len(caption_patterns) :
                    pattern_matches(t, caption_patterns[i]) /= {}}
        first == CHOOSE i \in hit : \A j \in hit : i <= j
        found == {i \in 1..Len(keyword_scores) :
                    contains(lower(t), keyword_scores[i].keyword) /\ Len(t) < 500}
    IN  IF hit /= {}
        THEN [text |-> t,
              priority |-> caption_patterns[first].score,
              type |-> SubSeq(t, 1, CHOOSE n \in pattern_matches(t, caption_patterns[first]) : TRUE)]
        ELSE IF found /= {}
        THEN [text |-> t,
              priority |-> SetMax({keyword_scores[i].score : i \in found}),
              type |-> capitalize(keyword_scores[SetMax(found)].keyword)]
        ELSE [text |-> t, priority |-> 0, type |-> <<>>]

\* text_caption of every text of the model, computed once.
text_captions == [t \in BlockTexts |-> text_caption(t)]

\* The caption of the block with text t on page pg.
block_caption(pg, t) ==
    [page |-> pg, text |-> t, priority |-> text_captions[t].priority,
     type |-> text_captions[t].type]

(***************************************************************************)
(* The PDF files of the model.                                             *)
(***************************************************************************)
\* Pages of the longest PDF.
MaxPages == 3
\* Caption-like text blocks of a PDF.
MaxBlocks == 1
\* Embedded images of a PDF.
MaxEmbedded == 2

\* Characters of running prose on a page.  The prose is one block that no
\* caption pattern and no caption keyword matches.
Bodies == {0, 600}
\* Pixel sizes of the embedded images.
ImageSizes ==
    {[width |-> 50, height |-> 50], [width |-> 200, height |-> 200],
     [width |-> 400, height |-> 600], [width |-> 500, height |-> 500]}
\* Size of a page in points (US Letter).
MediaBox == [width |-> 612, height |-> 792]
\* Values of max_pages; 0 stands for None.
Caps == {0, 1}

\* At most m items of S laid on the pages 1..n, in page order.
Placements(n, S, m) ==
    UNION {{q \in [1..len -> [page : 1..n, item : S]] :
                \A i \in 1..(len - 1) : q[i].page <= q[i + 1].page} : len \in 0..m}

on_page(q, i) ==
    LET here(x) == x.page = i
        there == SelectSeq(q, here)
    IN  [j \in 1..Len(there) |-> there[j].item]

\* The readable PDFs of n pages: every page has its prose (or none), the
\* caption-like blocks and the embedded images laid on it.  Embedded images
\* decode, pages render and no page holds a table.
ReadablePDFs(n) ==
    {[file |-> "ok",
      pages |-> [i \in 1..n |-> [body |-> bodies[i],
                                 blocks |-> on_page(bl, i),
                                 embedded |-> on_page(em, i)]]] :
        bodies \in [1..n -> Bodies],
        bl \in Placements(n, CaptionTexts, MaxBlocks),
        em \in Placements(n, ImageSizes, MaxEmbedded)}

\* A file of size 0, and a file neither library can open.
BrokenPDFs == {[file |-> "empty", pages |-> <<>>], [file |-> "corrupt", pages |-> <<>>]}

page_count(d) == Len(d.pages)

\* The text blocks of page p, the prose first.
text_blocks(p) == IF p.body > 0 THEN <<p.body>> \o [j \in 1..Len(p.blocks) |-> Len(p.blocks[j])]
                  ELSE [j \in 1..Len(p.blocks) |-> Len(p.blocks[j])]

RECURSIVE sum_seq(_)
sum_seq(q) == IF q = <<>> THEN 0 ELSE Head(q) + sum_seq(Tail(q))

\* len(text.strip()) of the text of page p: the blocks, one line break between
\* two of them.
page_text_len(p) ==
    LET b == text_blocks(p)
    IN  IF b = <<>> THEN 0 ELSE sum_seq(b) + Len(b) - 1

\* The elements of q at the positions of S, in the order of q.
at_positions(q, S) ==
    [i \in 1..Cardinality(S) |->
        q[CHOOSE x \in S : Cardinality({y \in S : y < x}) = i - 1]]

(***************************************************************************)
(* extract_images_from_pdf                                                 *)
(***************************************************************************)
\* fitz.Matrix(2, 2)
Zoom == 2

\* Method 1 keeps the embedded image of w x h pixels on page pg.
keeps_embedded(pg, w, h) ==
    /\ ~(w < 200 \/ h < 200)
    /\ ~(pg = 1 /\ h < 400)
    /\ ~(5 * w < h \/ w > 5 * h)

\* Method 1 on page pg.
standard_images(d, pg) ==
    LET found == d.pages[pg].embedded
        kept == {x \in 1..Len(found) : keeps_embedded(pg, found[x].width, found[x].height)}
        all == [x \in 1..Len(found) |->
                    [filename |-> <<"page", pg, "_img", x>>, page |-> pg, index |-> x,
                     width |-> found[x].width, height |-> found[x].height,
                     extraction_method |-> "standard"]]
    IN  at_positions(all, kept)

\* Method 2 on page pg: the page rendered, when method 1 kept nothing of it
\* and the page has little text.
rendered_page(d, pg) ==
    IF standard_images(d, pg) = <<>> /\ page_text_len(d.pages[pg]) < 500
    THEN << [filename |-> <<"page", pg, "_rendered">>, page |-> pg, index |-> 0,
             width |-> Zoom * MediaBox.width, height |-> Zoom * MediaBox.height,
             extraction_method |-> "rendered_page"] >>
    ELSE <<>>

RECURSIVE images_of_pages(_, _)
images_of_pages(d, n) ==
    IF n = 0 THEN <<>>
    ELSE images_of_pages(d, n - 1) \o standard_images(d, n) \o rendered_page(d, n)

\* The first image of every (page, width, height).
unique_images(imgs) ==
    at_positions(imgs,
        {x \in 1..Len(imgs) :
            \A y \in 1..(x - 1) :
                <<imgs[y].page, imgs[y].width, imgs[y].height>>
                    /= <<imgs[x].page, imgs[x].width, imgs[x].height>>})

extract_images_from_pdf(d) == unique_images(images_of_pages(d, page_count(d)))

(***************************************************************************)
(* extract_image_captions                                                  *)
(***************************************************************************)
RECURSIVE captions_of_pages(_, _)
captions_of_pages(d, n) ==
    IF n = 0 THEN <<>>
    ELSE LET blocks == d.pages[n].blocks
             all == [j \in 1..Len(blocks) |-> block_caption(n, blocks[j])]
         IN  captions_of_pages(d, n - 1)
                \o at_positions(all, {j \in 1..Len(all) : all[j].priority > 0})

\* The first caption of every (page, text[:100]).
unique_captions(caps) ==
    at_positions(caps,
        {x \in 1..Len(caps) :
            \A y \in 1..(x - 1) :
                <<caps[y].page, SubSeq(caps[y].text, 1, Min(100, Len(caps[y].text)))>>
                    /= <<caps[x].page, SubSeq(caps[x].text, 1, Min(100, Len(caps[x].text)))>>})

\* list.sort(key=...), which is stable: the position of element x of q in the
\* sorted list, before(a, b) saying that a's key is smaller than b's.
sorted_by(q, before(_, _)) ==
    LET rank(x) == Cardinality({y \in 1..Len(q) :
                        before(q[y], q[x]) \/ (~before(q[x], q[y]) /\ y < x)})
    IN  [i \in 1..Len(q) |-> q[CHOOSE x \in 1..Len(q) : rank(x) = i - 1]]

by_priority_then_page(a, b) ==
    a.priority > b.priority \/ (a.priority = b.priority /\ a.page < b.page)

extract_image_captions(d) ==
    sorted_by(unique_captions(captions_of_pages(d, page_count(d))), by_priority_then_page)

(***************************************************************************)
(* match_images_with_captions                                              *)
(***************************************************************************)
\* caption None
NoCaption == <<>>
\* featured image None
NoImage == [filename |-> <<>>]

with_field(r, name, v) ==
    [f \in DOMAIN r \cup {name} |-> IF f = name THEN v ELSE r[f]]

abs(x) == IF x < 0 THEN 0 - x ELSE x

\* match_score for an image that carries a bbox less than 100 away from the
\* caption's: the position-based part adds 50.
match_score_with_bbox(img, cap) ==
    IF abs(cap.page - img.page) > 1 THEN 0
    ELSE (IF cap.page = img.page THEN 1000 ELSE 500)
         + 500
         + (IF lower(cap.type) \in {<<"f", "i", "g", "u", "r", "e">>, <<"f", "i", "g">>} THEN 200 ELSE 0)
         + cap.priority

\* The matching score of caption cap for image img, in tenths; 0 when the
\* caption is more than one page away.  No image carries a bbox, so the
\* position-based part of the score never applies.
match_score(img, cap) ==
    IF abs(cap.page - img.page) > 1 THEN 0
    ELSE (IF cap.page = img.page THEN 1000 ELSE 500)
         + (IF lower(cap.type) \in {<<"f", "i", "g", "u", "r", "e">>, <<"f", "i", "g">>} THEN 200 ELSE 0)
         + cap.priority

\* matched_image with the last caption of the highest score.
matched_image_last_of_best(img, caps) ==
    LET scores == [j \in 1..Len(caps) |-> match_score(img, caps[j])]
        best == {j \in 1..Len(caps) :
                    /\ scores[j] > 0
                    /\ \A y \in 1..Len(caps) : scores[y] <= scores[j]
                    /\ \A y \in (j + 1)..Len(caps) : scores[y] < scores[j]}
    IN  IF best = {}
        THEN with_field(with_field(img, "caption", NoCaption), "caption_confidence", 0)
        ELSE LET j == CHOOSE j \in best : TRUE
             IN  with_field(with_field(img, "caption", caps[j].text),
                            "caption_confidence", Min(scores[j], 2000))

\* The image with its best caption: the first caption of the highest score
\* above 0.  caption_confidence is min(best_score / 200, 1.0) in
\* two-thousandths.
matched_image(img, caps) ==
    LET scores == [j \in 1..Len(caps) |-> match_score(img, caps[j])]
        best == {j \in 1..Len(caps) :
                    /\ scores[j] > 0
                    /\ \A y \in 1..Len(caps) : scores[y] <= scores[j]
                    /\ \A y \in 1..(j - 1) : scores[y] < scores[j]}
    IN  IF best = {}
        THEN with_field(with_field(img, "caption", NoCaption), "caption_confidence", 0)
        ELSE LET j == CHOOSE j \in best : TRUE
             IN  with_field(with_field(img, "caption", caps[j].text),
                            "caption_confidence", Min(scores[j], 2000))

match_images_with_captions(imgs, caps) ==
    [x \in 1..Len(imgs) |-> matched_image(imgs[x], caps)]

(***************************************************************************)
(* identify_key_figures and select_featured_image                          *)
(***************************************************************************)
size_priority(img) ==
    LET img_area == img.width * img.height
    IN  IF img_area > 500000 THEN 50
        ELSE IF img_area > 200000 THEN 30
        ELSE IF img_area > 100000 THEN 15
        ELSE 0

\* The boost a caption text gives (the pattern for the Korean "figure 1" is
\* left out with the Korean texts).
text_boost(t) ==
    LET caption_text == lower(t)
    IN  IF contains(caption_text, <<"g", "r", "a", "p", "h", "i", "c", "a", "l", " ", "a", "b", "s", "t", "r", "a", "c", "t">>) THEN 300
        ELSE IF contains_any(caption_text,
                    {<<"s", "c", "h", "e", "m", "a">>, <<"s", "c", "h", "e", "m", "e">>, <<"s", "c", "h", "e", "m", "a", "t", "i", "c", " ", "d", "i", "a", "g", "r", "a", "m">>}) THEN 250
        ELSE IF contains_any(caption_text,
                    {<<"f", "i", "g", ".", " ", "1">>, <<"f", "i", "g", "u", "r", "e", " ", "1">>, <<"f", "i", "g", " ", "1">>}) THEN 100
        ELSE IF contains_any(caption_text,
                    {<<"o", "v", "e", "r", "v", "i", "e", "w">>, <<"w", "o", "r", "k", "f", "l", "o", "w">>, <<"s", "c", "h", "e", "m", "a", "t", "i", "c">>, <<"s", "u", "m", "m", "a", "r", "y">>,
                     <<"f", "r", "a", "m", "e", "w", "o", "r", "k">>, <<"a", "r", "c", "h", "i", "t", "e", "c", "t", "u", "r", "e">>}) THEN 80
        ELSE IF contains_any(caption_text,
                    {<<"m", "o", "d", "e", "l">>, <<"p", "i", "p", "e", "l", "i", "n", "e">>, <<"m", "e", "c", "h", "a", "n", "i", "s", "m">>, <<"p", "a", "t", "h", "w", "a", "y">>}) THEN 60
        ELSE 0

\* text_boost of every text of the model, computed once.
text_boosts == [t \in BlockTexts |-> text_boost(t)]

\* What the captions within one page of the image add.
caption_priority(img, caps) ==
    sum_seq([j \in 1..Len(caps) |->
                IF abs(caps[j].page - img.page) <= 1
                THEN caps[j].priority \div 2 + text_boosts[caps[j].text]
                ELSE 0])

image_priority(img, caps) ==
    (IF 100 - (img.page - 1) * 5 > 0 THEN 100 - (img.page - 1) * 5 ELSE 0)
    + size_priority(img) + caption_priority(img, caps)

higher_priority(a, b) == a.priority > b.priority

identify_key_figures(imgs, caps) ==
    sorted_by([x \in 1..Len(imgs) |->
                  with_field(imgs[x], "priority", image_priority(imgs[x], caps))],
              higher_priority)

\* The reasons select_featured_image joins with ", ".
selection_reasons(featured) ==
    << IF featured.priority >= 300 THEN "Graphical Abstract"
       ELSE IF featured.priority >= 250 THEN "Schema/Schematic"
       ELSE IF featured.priority >= 150 THEN "Figure 1"
       ELSE IF featured.priority >= 100 THEN "Early key figure"
       ELSE IF featured.priority >= 80 THEN "Overview figure"
       ELSE IF featured.priority >= 60 THEN "Explanatory figure"
       ELSE "Best available" >>
    \o (IF featured.width * featured.height > 500000 THEN <<"Large size">> ELSE <<>>)

select_featured_image(imgs, caps) ==
    LET prioritized_images == identify_key_figures(imgs, caps)
    IN  IF prioritized_images = <<>> THEN NoImage
        ELSE with_field(prioritized_images[1], "selection_reason",
                        selection_reasons(prioritized_images[1]))

(***************************************************************************)
(* extract_text_from_pdf and its three strategies                          *)
(***************************************************************************)
Raised == [outcome |-> "raise"]

\* The text a strategy returns: the pages whose "--- Page i ---" header it
\* holds, in order, and the characters of page text after the headers.
Returned(strategy, headed, d) ==
    LET sections == at_positions([i \in 1..page_count(d) |-> i], headed)
    IN  [outcome |-> "return", strategy |-> strategy, sections |-> sections,
         chars |-> sum_seq([j \in 1..Len(sections) |->
                               page_text_len(d.pages[sections[j]])])]

\* _extract_with_pdfplumber: pages of more than 10 characters, ValueError when
\* there is none (no page of the model holds a table).
extract_with_pdfplumber(d, cap) ==
    LET pages_to_process == IF cap /= 0 THEN Min(page_count(d), cap) ELSE page_count(d)
        parts == {i \in 1..pages_to_process : page_text_len(d.pages[i]) > 10}
    IN  IF d.file /= "ok" \/ parts = {} THEN Raised
        ELSE Returned("pdfplumber", parts, d)

\* _extract_with_pymupdf_enhanced: a header for every page processed, whatever
\* the page holds, after the two lines that name the document.
extract_with_pymupdf_enhanced(d, cap) ==
    LET pages == IF cap = 0 THEN page_count(d) ELSE Min(page_count(d), cap)
    IN  IF d.file /= "ok" THEN Raised
        ELSE Returned("pymupdf_enhanced", 1..pages, d)

\* _extract_with_pymupdf_simple: the pages that have text, ValueError when
\* there is none.
extract_with_pymupdf_simple(d, cap) ==
    LET pages == IF cap = 0 THEN page_count(d) ELSE Min(page_count(d), cap)
        parts == {i \in 1..pages : page_text_len(d.pages[i]) > 0}
    IN  IF d.file /= "ok" \/ parts = {} THEN Raised
        ELSE Returned("pymupdf_simple", parts, d)

extract_text_from_pdf(d, cap) ==
    LET plumbed == extract_with_pdfplumber(d, cap)
        enhanced == extract_with_pymupdf_enhanced(d, cap)
    IN  IF d.file = "empty" THEN Raised
        ELSE IF pdfplumber_available /\ plumbed /= Raised THEN plumbed
        ELSE IF enhanced /= Raised THEN enhanced
        ELSE extract_with_pymupdf_simple(d, cap)

(***************************************************************************)
(* The calls.                                                              *)
(***************************************************************************)
\* The steps of extract_text_and_images that run inside a try block.
Steps == {"images", "captions", "matching", "featured"}
\* Steps of one call that raise.
MaxFailures == 1

ExtractIdle ==
    /\ pdfplumber_available = FALSE /\ pdf = [file |-> "empty", pages |-> <<>>]
    /\ extract_pc = "off" /\ called = "none" /\ max_pages = 0 /\ failed = {}
    /\ text_content = Raised /\ images = <<>> /\ captions = <<>>
    /\ prioritized = <<>> /\ featured_image = NoImage

\* A PDF lies at pdf_path; no function has been called yet.
ExtractInit ==
    /\ pdfplumber_available \in BOOLEAN
    /\ pdf \in BrokenPDFs \/ \E n \in 1..MaxPages : pdf \in ReadablePDFs(n)
    /\ extract_pc = "ready" /\ called = "none" /\ max_pages = 0 /\ failed = {}
    /\ text_content = Raised /\ images = <<>> /\ captions = <<>>
    /\ prioritized = <<>> /\ featured_image = NoImage

\* extract_text_from_pdf(pdf_path, max_pages)
ExtractText(cap) ==
    /\ extract_pc = "ready"
    /\ called' = "extract_text_from_pdf"
    /\ max_pages' = cap
    /\ LET got == extract_text_from_pdf(pdf, cap)
       IN  /\ text_content' = got
           /\ extract_pc' = IF got = Raised THEN "raised" ELSE "returned"
    /\ UNCHANGED <<pdfplumber_available, pdf, failed, images, captions, prioritized,
                   featured_image>>
    /\ UNCHANGED <<ingestVars, hybridVars, searchVars, chunkVars, batchVars, laterVars>>

\* extract_images_from_pdf(pdf_path): fitz.open raises on a file it cannot read.
ExtractImages ==
    /\ extract_pc = "ready"
    /\ called' = "extract_images_from_pdf"
    /\ IF pdf.file = "ok"
       THEN /\ images' = extract_images_from_pdf(pdf)
            /\ extract_pc' = "returned"
       ELSE /\ images' = images
            /\ extract_pc' = "raised"
    /\ UNCHANGED <<pdfplumber_available, pdf, max_pages, failed, text_content, captions,
                   prioritized, featured_image>>
    /\ UNCHANGED <<ingestVars, hybridVars, searchVars, chunkVars, batchVars, laterVars>>

caption_confidence_of(img) ==
    IF "caption_confidence" \in DOMAIN img THEN img.caption_confidence ELSE 0

\* The images of a caption_confidence above 0.7 (1400 two-thousandths).
high_confidence(imgs) ==
    at_positions(imgs, {x \in 1..Len(imgs) : caption_confidence_of(imgs[x]) > 1400})

\* The steps of extract_text_and_images after the text is extracted, the steps
\* of fails raising an exception if they run.  A step that raises leaves its
\* list empty, the images unmatched, the featured image None.

\* The selection, which runs when there are images.
featured_step(matched, found, fails) ==
    IF matched = <<>> \/ "featured" \in fails THEN NoImage
    ELSE IF high_confidence(matched) /= <<>>
    THEN select_featured_image(high_confidence(matched), found)
    ELSE select_featured_image(matched, found)

\* What the call returns besides the text, and the steps that ran and raised.
after_matching(matched, found, fails, matching_ran) ==
    [images |-> matched, captions |-> found,
     featured_image |-> featured_step(matched, found, fails),
     failed |-> {s \in fails : \/ s \in {"images", "captions"}
                               \/ s = "matching" /\ matching_ran
                               \/ s = "featured" /\ matched /= <<>>}]

\* The matching, which runs when there are images and captions.
matching_step(extracted, found, fails) ==
    after_matching(IF extracted /= <<>> /\ found /= <<>> /\ "matching" \notin fails
                   THEN match_images_with_captions(extracted, found)
                   ELSE extracted,
                   found, fails, extracted /= <<>> /\ found /= <<>>)

extract_text_and_images(d, fails) ==
    matching_step(IF "images" \in fails THEN <<>> ELSE extract_images_from_pdf(d),
                  IF "captions" \in fails THEN <<>> ELSE extract_image_captions(d),
                  fails)

\* The call with no try block around its steps: a step that raises ends it.
ExtractTextAndImagesUncaught(cap, fails) ==
    /\ extract_pc = "ready"
    /\ Cardinality(fails) <= MaxFailures
    /\ called' = "extract_text_and_images"
    /\ max_pages' = cap
    /\ LET got == extract_text_from_pdf(pdf, cap)
       IN  /\ text_content' = got
           /\ IF got = Raised
              THEN /\ fails = {}
                   /\ extract_pc' = "raised"
                   /\ UNCHANGED <<failed, images, captions, featured_image>>
              ELSE LET rest == extract_text_and_images(pdf, fails)
                   IN  /\ rest.failed = fails
                       /\ extract_pc' = IF fails = {} THEN "returned" ELSE "raised"
                       /\ failed' = fails
                       /\ images' = rest.images
                       /\ captions' = rest.captions
                       /\ featured_image' = rest.featured_image
    /\ UNCHANGED <<pdfplumber_available, pdf, prioritized>>
    /\ UNCHANGED <<ingestVars, hybridVars, searchVars, chunkVars, batchVars, laterVars>>

\* A call of extract_text_and_images in which the steps of fails raise.
ExtractTextAndImages(cap, fails) ==
    /\ extract_pc = "ready"
    /\ Cardinality(fails) <= MaxFailures
    /\ called' = "extract_text_and_images"
    /\ max_pages' = cap
    /\ LET got == extract_text_from_pdf(pdf, cap)
       IN  /\ text_content' = got
           /\ IF got = Raised
              THEN /\ fails = {}
                   /\ extract_pc' = "raised"
                   /\ UNCHANGED <<failed, images, captions, featured_image>>
              ELSE LET rest == extract_text_and_images(pdf, fails)
                   IN  /\ rest.failed = fails
                       /\ extract_pc' = "returned"
                       /\ failed' = fails
                       /\ images' = rest.images
                       /\ captions' = rest.captions
                       /\ featured_image' = rest.featured_image
    /\ UNCHANGED <<pdfplumber_available, pdf, prioritized>>
    /\ UNCHANGED <<ingestVars, hybridVars, searchVars, chunkVars, batchVars, laterVars>>

(***************************************************************************)
(* Direct calls of match_images_with_captions on what the extractors       *)
(* return for a PDF.                                                       *)
(***************************************************************************)
MatchPages == {1, 2, 3}

\* A three-page PDF: text j is a block of page where[j] (of no page for 0),
\* and the pages of shown hold an embedded image.
MatchPDF(where, shown) ==
    [file |-> "ok",
     pages |-> [i \in MatchPages |->
                  [body |-> 600,
                   blocks |-> at_positions(MatchTexts, {j \in 1..Len(MatchTexts) : where[j] = i}),
                   embedded |-> IF i \in shown THEN <<[width |-> 400, height |-> 600]>>
                                ELSE <<>>]]]

\* The arguments of a matching call: the images and the captions of a PDF.
MatchInit ==
    /\ pdfplumber_available = FALSE
    /\ \E where \in [1..Len(MatchTexts) -> {0} \cup MatchPages], shown \in SUBSET MatchPages :
          pdf = MatchPDF(where, shown)
    /\ images = extract_images_from_pdf(pdf)
    /\ captions = extract_image_captions(pdf)
    /\ extract_pc = "args" /\ called = "none" /\ max_pages = 0 /\ failed = {}
    /\ text_content = Raised
    /\ prioritized = <<>> /\ featured_image = NoImage

\* match_images_with_captions(images, captions)
MatchImagesWithCaptions ==
    /\ extract_pc = "args"
    /\ called' = "match_images_with_captions"
    /\ prioritized' = match_images_with_captions(images, captions)
    /\ extract_pc' = "returned"
    /\ UNCHANGED <<pdfplumber_available, pdf, max_pages, failed, text_content, images,
                   captions, featured_image>>
    /\ UNCHANGED <<ingestVars, hybridVars, searchVars, chunkVars, batchVars, laterVars>>

(***************************************************************************)
(* Direct calls of identify_key_figures and select_featured_image.         *)
(***************************************************************************)
\* Images of a ranking call.
MaxRanked == 3

RankPages == {1, 2}
\* Three sizes of one pixel area.
RankSizes ==
    {[width |-> 400, height |-> 600], [width |-> 600, height |-> 400],
     [width |-> 480, height |-> 500]}

\* A two-page PDF with the three texts as blocks, text j on page where[j].
RankPDF(where) ==
    [file |-> "ok",
     pages |-> [i \in RankPages |->
                  [body |-> 600,
                   blocks |-> at_positions(RankTexts, {j \in 1..Len(RankTexts) : where[j] = i}),
                   embedded |-> <<>>]]]

\* The caption lists extract_image_captions returns for these PDFs.
RankCaptions == {extract_image_captions(RankPDF(where)) : where \in [1..Len(RankTexts) -> RankPages]}

\* Image x of a call, on page pg and of size sz, as extract_images_from_pdf and
\* match_images_with_captions shape it when caption cap is attached to it.
ranked_image(x, pg, sz, cap) ==
    LET img == [filename |-> <<"page", pg, "_img", x>>, page |-> pg, index |-> x,
                width |-> sz.width, height |-> sz.height,
                extraction_method |-> "standard"]
    IN  with_field(with_field(img, "caption", cap.text),
                   "caption_confidence", Min(match_score(img, cap), 2000))

\* The arguments of a ranking call: the captions of a PDF, and images of
\* different page or size, each with one of these captions.
RankInit ==
    /\ pdfplumber_available = FALSE /\ pdf = [file |-> "empty", pages |-> <<>>]
    /\ extract_pc = "args" /\ called = "none" /\ max_pages = 0 /\ failed = {}
    /\ text_content = Raised
    /\ captions \in RankCaptions
    /\ \E pg \in [1..MaxRanked -> RankPages], sz \in [1..MaxRanked -> RankSizes],
          cp \in [1..MaxRanked -> 1..Len(RankTexts)] :
            /\ \A x \in 1..MaxRanked : \A y \in 1..(x - 1) :
                    <<pg[x], sz[x]>> /= <<pg[y], sz[y]>>
            /\ images = [x \in 1..MaxRanked |-> ranked_image(x, pg[x], sz[x], captions[cp[x]])]
    /\ prioritized = <<>> /\ featured_image = NoImage

\* identify_key_figures(images, captions)
IdentifyKeyFigures ==
    /\ extract_pc = "args"
    /\ called' = "identify_key_figures"
    /\ prioritized' = identify_key_figures(images, captions)
    /\ extract_pc' = "returned"
    /\ UNCHANGED <<pdfplumber_available, pdf, max_pages, failed, text_content, images,
                   captions, featured_image>>
    /\ UNCHANGED <<ingestVars, hybridVars, searchVars, chunkVars, batchVars, laterVars>>

\* select_featured_image(images, captions)
SelectFeaturedImage ==
    /\ extract_pc = "args"
    /\ called' = "select_featured_image"
    /\ featured_image' = select_featured_image(images, captions)
    /\ extract_pc' = "returned"
    /\ UNCHANGED <<pdfplumber_available, pdf, max_pages, failed, text_content, images,
                   captions, prioritized>>
    /\ UNCHANGED <<ingestVars, hybridVars, searchVars, chunkVars, batchVars, laterVars>>

(***************************************************************************)
(* The batch loops: main of run_literature_batch.py (a thread pool), main  *)
(* of rag/text_rag_bge_m3.py and PaperRAGBuilder.batch_process_papers.     *)
(***************************************************************************)
\* Papers of the largest batch.
MaxBatch == 3
\* Threads of the largest pool.
MaxPool == 2

BatchLoops == {"run_literature_batch", "text_rag_bge_m3", "batch_process_papers"}

\* Where a paper can end.
Settled == {"processed", "skipped", "failed"}

NoCounts == [success |-> 0, failed |-> 0, skipped |-> 0]

BatchIdle ==
    /\ batch_loop = "none" /\ batch_pc = "off" /\ max_workers = 1 /\ next_item = 1
    /\ task = <<>> /\ counts = NoCounts

\* A batch of well-formed items is loaded (every item names a pdf_path); for
\* the thread pool, every item is submitted.
BatchInit ==
    /\ batch_loop \in BatchLoops /\ batch_pc = "loop"
    /\ max_workers \in IF batch_loop = "run_literature_batch" THEN 1..MaxPool ELSE {1}
    /\ next_item = 1
    /\ \E n \in 1..MaxBatch : task = [i \in 1..n |-> "pending"]
    /\ counts = NoCounts

\* What TextRAGBGEM3.process_paper returns: the paper was processed before,
\* it is stored, or a step of the extraction or of the ingestion raised and
\* the except clause turned the exception into an error status.
process_paper_ends == {"skipped", "processed", "failed"}

\* One pass of the loop of text_rag_bge_m3.main.
ProcessPaperOfBatch ==
    /\ batch_loop = "text_rag_bge_m3" /\ batch_pc = "loop"
    /\ next_item <= Len(task)
    /\ \E end \in process_paper_ends : task' = [task EXCEPT ![next_item] = end]
    /\ next_item' = next_item + 1
    /\ UNCHANGED <<batch_loop, batch_pc, max_workers, counts>>
    /\ UNCHANGED <<ingestVars, hybridVars, searchVars, chunkVars, extractVars, laterVars>>

\* One pass of the loop of batch_process_papers: the file is missing, or
\* process_pdf returns True, or it returns False (processed before, too little
\* text, or an exception its except clause caught).
ProcessPdfOfBatch ==
    /\ batch_loop = "batch_process_papers" /\ batch_pc = "loop"
    /\ next_item <= Len(task)
    /\ \E file_exists \in BOOLEAN, process_pdf \in BOOLEAN :
          IF ~file_exists
          THEN /\ task' = [task EXCEPT ![next_item] = "skipped"]
               /\ counts' = [counts EXCEPT !.skipped = @ + 1]
          ELSE IF process_pdf
          THEN /\ task' = [task EXCEPT ![next_item] = "processed"]
               /\ counts' = [counts EXCEPT !.success = @ + 1]
          ELSE /\ task' = [task EXCEPT ![next_item] = "failed"]
               /\ counts' = [counts EXCEPT !.failed = @ + 1]
    /\ next_item' = next_item + 1
    /\ UNCHANGED <<batch_loop, batch_pc, max_workers>>
    /\ UNCHANGED <<ingestVars, hybridVars, searchVars, chunkVars, extractVars, laterVars>>

\* The for loop of a sequential batch ends.
LoopEnds ==
    /\ batch_loop \in {"text_rag_bge_m3", "batch_process_papers"} /\ batch_pc = "loop"
    /\ next_item > Len(task)
    /\ batch_pc' = "done"
    /\ UNCHANGED <<batch_loop, max_workers, next_item, task, counts>>
    /\ UNCHANGED <<ingestVars, hybridVars, searchVars, chunkVars, extractVars, laterVars>>

\* A thread of the pool takes the first task of the queue.
TaskStarts(i) ==
    /\ batch_loop = "run_literature_batch" /\ batch_pc = "loop"
    /\ task[i] = "pending"
    /\ \A j \in 1..(i - 1) : task[j] /= "pending"
    /\ Cardinality({j \in 1..Len(task) : task[j] = "running"}) < max_workers
    /\ task' = [task EXCEPT ![i] = "running"]
    /\ UNCHANGED <<batch_loop, batch_pc, max_workers, next_item, counts>>
    /\ UNCHANGED <<ingestVars, hybridVars, searchVars, chunkVars, extractVars, laterVars>>

\* What becomes of a process_item call: it returns True (a failed extraction
\* falls back to the abstract), it returns False (the note could not be
\* rendered or written), or it raises.
process_item_ends == {"True", "False", "raised"}

\* process_item ends and its future completes.
TaskEnds(i) ==
    /\ batch_loop = "run_literature_batch" /\ batch_pc = "loop"
    /\ task[i] = "running"
    /\ \E end \in process_item_ends : task' = [task EXCEPT ![i] = end]
    /\ UNCHANGED <<batch_loop, batch_pc, max_workers, next_item, counts>>
    /\ UNCHANGED <<ingestVars, hybridVars, searchVars, chunkVars, extractVars, laterVars>>

\* The loop without its except clause: the exception of a future ends it.
FutureHandledUncaught(i) ==
    /\ batch_loop = "run_literature_batch" /\ batch_pc = "loop"
    /\ task[i] \in process_item_ends
    /\ IF task[i] = "True"
       THEN /\ task' = [task EXCEPT ![i] = "processed"]
            /\ counts' = [counts EXCEPT !.success = @ + 1]
            /\ UNCHANGED batch_pc
       ELSE IF task[i] = "False"
       THEN /\ task' = [task EXCEPT ![i] = "failed"]
            /\ counts' = [counts EXCEPT !.failed = @ + 1]
            /\ UNCHANGED batch_pc
       ELSE /\ batch_pc' = "aborted"
            /\ UNCHANGED <<task, counts>>
    /\ UNCHANGED <<batch_loop, max_workers, next_item>>
    /\ UNCHANGED <<ingestVars, hybridVars, searchVars, chunkVars, extractVars, laterVars>>

\* The main thread takes a completed future from as_completed: future.result()
\* is counted as a success or an error, and an exception it raises is caught
\* and counted as an error.
FutureHandled(i) ==
    /\ batch_loop = "run_literature_batch" /\ batch_pc = "loop"
    /\ task[i] \in process_item_ends
    /\ IF task[i] = "True"
       THEN /\ task' = [task EXCEPT ![i] = "processed"]
            /\ counts' = [counts EXCEPT !.success = @ + 1]
       ELSE /\ task' = [task EXCEPT ![i] = "failed"]
            /\ counts' = [counts EXCEPT !.failed = @ + 1]
    /\ UNCHANGED <<batch_loop, batch_pc, max_workers, next_item>>
    /\ UNCHANGED <<ingestVars, hybridVars, searchVars, chunkVars, extractVars, laterVars>>

\* Every future is handled: the pool shuts down and main goes on to the summary.
PoolEnds ==
    /\ batch_loop = "run_literature_batch" /\ batch_pc = "loop"
    /\ \A i \in 1..Len(task) : task[i] \in Settled
    /\ batch_pc' = "done"
    /\ UNCHANGED <<batch_loop, max_workers, next_item, task, counts>>
    /\ UNCHANGED <<ingestVars, hybridVars, searchVars, chunkVars, extractVars, laterVars>>

(***************************************************************************)
(* The initialisation of a Pinecone index by the five builder classes:     *)
(* MultimodalRAGBuilder._init_pinecone, ImprovedRAGBuilder._init_vector_db,*)
(* VectorDBManager.create_collection, ImageRAGCLIP._init_vector_db and     *)
(* TextRAGBGEM3._init_vector_db.  A call of the Pinecone client returns or *)
(* raises; what the service answers is the service's choice.               *)
(***************************************************************************)
\* Seconds of sleep the model counts; a longer wait keeps the count at this.
MaxSlept == 16
\* time.sleep(5) after delete_index.
DeleteWait == 5
\* time.sleep(10) after create_index.
CreateWait == 10
\* time.sleep(1) between two describe_index calls.
PollWait == 1

\* Where an initialisation ends: the index is connected, Pinecone is switched
\* off (use_pinecone = False), or the constructor raised.
PineconeEnds == {"connected", "disabled", "raised"}

PineconeIdle ==
    /\ pinecone_cls = "none" /\ api_key = FALSE /\ index_listed = FALSE
    /\ index_ready = FALSE /\ pinecone_pc = "off" /\ slept = 0

\* A builder is constructed for Pinecone.  An index the service lists may
\* or may not be ready yet.
PineconeInit ==
    /\ pinecone_cls \in Kinds
    /\ api_key \in BOOLEAN
    /\ index_listed \in BOOLEAN
    /\ index_ready \in BOOLEAN /\ (index_ready => index_listed)
    /\ pinecone_pc = "start" /\ slept = 0

asleep(seconds) == IF slept + seconds > MaxSlept THEN MaxSlept ELSE slept + seconds

\* Where an exception of a client call leads: _init_pinecone catches it and
\* switches Pinecone off, the other classes let it leave the constructor.
call_raised == IF pinecone_cls = "multimodal" THEN "disabled" ELSE "raised"

\* The API key is read and the indexes are listed.  VectorDBManager creates
\* its client, and reads the key, before create_collection.
ListIndexes ==
    /\ pinecone_pc = "start"
    /\ IF ~api_key /\ pinecone_cls /= "paper"
       THEN pinecone_pc' = call_raised
       ELSE \E returns \in BOOLEAN :
               pinecone_pc' = IF returns THEN "listed" ELSE call_raised
    /\ UNCHANGED <<pinecone_cls, api_key, index_listed, index_ready, slept>>
    /\ UNCHANGED <<ingestVars, hybridVars, searchVars, chunkVars, extractVars, batchVars>>
    /\ UNCHANGED <<embedVars, storeVars, resumeVars>>

\* ImprovedRAGBuilder deletes an index of its name and sleeps.
DeleteIndex ==
    /\ pinecone_pc = "listed" /\ pinecone_cls = "improved" /\ index_listed
    /\ \E returns \in BOOLEAN :
          IF returns
          THEN /\ index_listed' = FALSE /\ index_ready' = FALSE
               /\ slept' = asleep(DeleteWait)
               /\ pinecone_pc' = "create"
          ELSE /\ pinecone_pc' = call_raised
               /\ UNCHANGED <<index_listed, index_ready, slept>>
    /\ UNCHANGED <<pinecone_cls, api_key>>
    /\ UNCHANGED <<ingestVars, hybridVars, searchVars, chunkVars, extractVars, batchVars>>
    /\ UNCHANGED <<embedVars, storeVars, resumeVars>>

\* The index is there: the other classes use it as it is.
UseIndex ==
    /\ pinecone_pc = "listed" /\ pinecone_cls /= "improved" /\ index_listed
    /\ pinecone_pc' = "connect"
    /\ UNCHANGED <<pinecone_cls, api_key, index_listed, index_ready, slept>>
    /\ UNCHANGED <<ingestVars, hybridVars, searchVars, chunkVars, extractVars, batchVars>>
    /\ UNCHANGED <<embedVars, storeVars, resumeVars>>

\* The index is not there: create_index.  Then ImprovedRAGBuilder and
\* VectorDBManager sleep once, MultimodalRAGBuilder polls, and ImageRAGCLIP
\* and TextRAGBGEM3 go on at once.
CreateIndex ==
    /\ \/ pinecone_pc = "listed" /\ ~index_listed
       \/ pinecone_pc = "create"
    /\ \E returns \in BOOLEAN :
          IF returns
          THEN /\ index_listed' = TRUE /\ index_ready' = FALSE
               /\ slept' = IF pinecone_cls \in {"improved", "paper"}
                           THEN asleep(CreateWait) ELSE slept
               /\ pinecone_pc' = IF pinecone_cls = "multimodal" THEN "poll" ELSE "connect"
          ELSE /\ pinecone_pc' = call_raised
               /\ UNCHANGED <<index_listed, index_ready, slept>>
    /\ UNCHANGED <<pinecone_cls, api_key>>
    /\ UNCHANGED <<ingestVars, hybridVars, searchVars, chunkVars, extractVars, batchVars>>
    /\ UNCHANGED <<embedVars, storeVars, resumeVars>>

\* while not pc.describe_index(index_name).status['ready']: the test.
DescribeIndex ==
    /\ pinecone_pc = "poll"
    /\ \E returns \in BOOLEAN :
          pinecone_pc' = IF ~returns THEN call_raised
                         ELSE IF index_ready THEN "connect" ELSE "sleep"
    /\ UNCHANGED <<pinecone_cls, api_key, index_listed, index_ready, slept>>
    /\ UNCHANGED <<ingestVars, hybridVars, searchVars, chunkVars, extractVars, batchVars>>
    /\ UNCHANGED <<embedVars, storeVars, resumeVars>>

\* The body of the loop: time.sleep(1).
SleepAndRetry ==
    /\ pinecone_pc = "sleep"
    /\ slept' = asleep(PollWait)
    /\ pinecone_pc' = "poll"
    /\ UNCHANGED <<pinecone_cls, api_key, index_listed, index_ready>>
    /\ UNCHANGED <<ingestVars, hybridVars, searchVars, chunkVars, extractVars, batchVars>>
    /\ UNCHANGED <<embedVars, storeVars, resumeVars>>

\* pc.Index(index_name), and describe_index_stats where the class prints the
\* statistics.
ConnectIndex ==
    /\ pinecone_pc = "connect"
    /\ \E returns \in BOOLEAN :
          pinecone_pc' = IF returns THEN "connected" ELSE call_raised
    /\ UNCHANGED <<pinecone_cls, api_key, index_listed, index_ready, slept>>
    /\ UNCHANGED <<ingestVars, hybridVars, searchVars, chunkVars, extractVars, batchVars>>
    /\ UNCHANGED <<embedVars, storeVars, resumeVars>>

\* A step of the constructor.
PineconeStep ==
    \/ ListIndexes
    \/ DeleteIndex
    \/ UseIndex
    \/ CreateIndex
    \/ DescribeIndex
    \/ SleepAndRetry
    \/ ConnectIndex

\* The service: the index becomes ready.  Nothing obliges it to.
IndexBecomesReady ==
    /\ pinecone_pc \notin {"off"} \cup PineconeEnds
    /\ index_listed /\ ~index_ready
    /\ index_ready' = TRUE
    /\ UNCHANGED <<pinecone_cls, api_key, index_listed, pinecone_pc, slept>>
    /\ UNCHANGED <<ingestVars, hybridVars, searchVars, chunkVars, extractVars, batchVars>>
    /\ UNCHANGED <<embedVars, storeVars, resumeVars>>

(***************************************************************************)
(* Image-embedding generation: ImageRAGCLIP._generate_image_embeddings,    *)
(* ImprovedRAGBuilder._generate_image_embeddings and                       *)
(* EmbeddingGenerator.generate_image_embeddings.                           *)
(***************************************************************************)
\* Images of the longest argument.
MaxImages == 3

EmbedClasses == {"clip", "improved", "paper"}
FileStates == {"ok", "missing", "corrupt"}

\* The vector the model computes for the image at position i of the argument.
encoded(i) == [of |-> i, value |-> "encoded", dim |-> DimCLIP]
\* np.zeros(self.embedding_dim)
zeros == [of |-> 0, value |-> "zeros", dim |-> DimCLIP]
\* The vector the model computes for Image.new('RGB', (224, 224), color='white').
encoded_white == [of |-> 0, value |-> "white", dim |-> DimCLIP]

EmbedIdle ==
    /\ embed_cls = "none" /\ image_files = <<>> /\ embed_pc = "off" /\ embed_at = 1
    /\ loaded = <<>> /\ embeddings = <<>>

EmbedInit ==
    /\ embed_cls \in EmbedClasses
    /\ \E n \in 0..MaxImages : image_files \in [1..n -> FileStates]
    /\ embed_pc = "loop" /\ embed_at = 1
    /\ loaded = <<>> /\ embeddings = <<>>

\* One pass of the loop of ImageRAGCLIP: the image is opened and encoded, and
\* an exception puts a zero vector in its place.
EncodeOrZero ==
    /\ embed_cls = "clip" /\ embed_pc = "loop" /\ embed_at <= Len(image_files)
    /\ loaded' = Append(loaded, IF image_files[embed_at] = "ok"
                                THEN encoded(embed_at) ELSE zeros)
    /\ embed_at' = embed_at + 1
    /\ UNCHANGED <<embed_cls, image_files, embed_pc, embeddings>>
    /\ UNCHANGED <<ingestVars, hybridVars, searchVars, chunkVars, extractVars, batchVars>>
    /\ UNCHANGED <<pineconeVars, storeVars, resumeVars>>

\* One pass of the loop of ImprovedRAGBuilder: a path that does not exist is
\* left out of valid_paths.
KeepValidPath ==
    /\ embed_cls = "improved" /\ embed_pc = "loop" /\ embed_at <= Len(image_files)
    /\ loaded' = IF image_files[embed_at] /= "missing"
                 THEN Append(loaded, embed_at) ELSE loaded
    /\ embed_at' = embed_at + 1
    /\ UNCHANGED <<embed_cls, image_files, embed_pc, embeddings>>
    /\ UNCHANGED <<ingestVars, hybridVars, searchVars, chunkVars, extractVars, batchVars>>
    /\ UNCHANGED <<pineconeVars, storeVars, resumeVars>>

\* One pass of the loop of EmbeddingGenerator: an image that cannot be opened
\* is replaced by a white image.
OpenOrWhite ==
    /\ embed_cls = "paper" /\ embed_pc = "loop" /\ embed_at <= Len(image_files)
    /\ loaded' = Append(loaded, IF image_files[embed_at] = "ok" THEN embed_at ELSE 0)
    /\ embed_at' = embed_at + 1
    /\ UNCHANGED <<embed_cls, image_files, embed_pc, embeddings>>
    /\ UNCHANGED <<ingestVars, hybridVars, searchVars, chunkVars, extractVars, batchVars>>
    /\ UNCHANGED <<pineconeVars, storeVars, resumeVars>>

\* The loop of ImageRAGCLIP ends: np.array(embeddings).
ReturnEmbeddings ==
    /\ embed_cls = "clip" /\ embed_pc = "loop" /\ embed_at > Len(image_files)
    /\ embeddings' = loaded
    /\ embed_pc' = "returned"
    /\ UNCHANGED <<embed_cls, image_files, embed_at, loaded>>
    /\ UNCHANGED <<ingestVars, hybridVars, searchVars, chunkVars, extractVars, batchVars>>
    /\ UNCHANGED <<pineconeVars, storeVars, resumeVars>>

\* The loop of ImprovedRAGBuilder ends: the valid paths are encoded in one
\* call, np.array([]) is returned when there is none.
EncodeValidPaths ==
    /\ embed_cls = "improved" /\ embed_pc = "loop" /\ embed_at > Len(image_files)
    /\ embeddings' = [i \in 1..Len(loaded) |-> encoded(loaded[i])]
    /\ embed_pc' = "returned"
    /\ UNCHANGED <<embed_cls, image_files, embed_at, loaded>>
    /\ UNCHANGED <<ingestVars, hybridVars, searchVars, chunkVars, extractVars, batchVars>>
    /\ UNCHANGED <<pineconeVars, storeVars, resumeVars>>

\* The loop of EmbeddingGenerator ends: self.model.encode(images).
EncodeImages ==
    /\ embed_cls = "paper" /\ embed_pc = "loop" /\ embed_at > Len(image_files)
    /\ embeddings' = [i \in 1..Len(loaded) |->
                         IF loaded[i] = 0 THEN encoded_white ELSE encoded(loaded[i])]
    /\ embed_pc' = "returned"
    /\ UNCHANGED <<embed_cls, image_files, embed_at, loaded>>
    /\ UNCHANGED <<ingestVars, hybridVars, searchVars, chunkVars, extractVars, batchVars>>
    /\ UNCHANGED <<pineconeVars, storeVars, resumeVars>>

(***************************************************************************)
(* The metadata of the records TextRAGBGEM3.process_paper writes.  A dict  *)
(* is a function from its keys to their values.                            *)
(***************************************************************************)
\* Caption chunks of a paper, at most.
MaxCaptions == 1

\* The dict without keys.
empty_dict == [key \in {} |-> ""]

\* An optional dict: None, or a value that is not there, has given = FALSE.
NoDict == [given |-> FALSE, dict |-> empty_dict]
Given(d) == [given |-> TRUE, dict |-> d]

\* The dicts a caller passes as metadata, and None.
CustomMetadata ==
    {NoDict} \cup
    {Given(d) : d \in UNION {[keys -> Papers] : keys \in SUBSET {"paper_id", "title"}}}

\* d.update(e)
updated(d, e) ==
    [key \in DOMAIN d \cup DOMAIN e |-> IF key \in DOMAIN e THEN e[key] ELSE d[key]]

\* metadata or {}
or_empty(metadata) == IF metadata.given THEN metadata.dict ELSE empty_dict

StoreIdle ==
    /\ use_semantic_chunking = TRUE /\ store_db = "chroma" /\ store_paper_id = "none"
    /\ custom_metadata = NoDict /\ caption_count = 0 /\ store_pc = "off"
    /\ paper_chunks = <<>> /\ stored_records = <<>>

\* process_paper is called for a paper that is not processed yet and whose
\* text is extracted.
StoreInit ==
    /\ use_semantic_chunking \in BOOLEAN /\ store_db \in Backends
    /\ store_paper_id \in Papers /\ custom_metadata \in CustomMetadata
    /\ caption_count \in 0..MaxCaptions
    /\ store_pc = "extracted"
    /\ paper_chunks = <<>> /\ stored_records = <<>>

\* A text chunk of the simple chunker: process_paper sets its 'metadata' to
\* the caller's metadata.
simple_chunk == [chunk_type |-> "text", metadata |-> Given(or_empty(custom_metadata))]

\* The text chunks HybridChunker.chunk_with_paragraphs(text, metadata) can
\* return: the chunker may or may not carry the caller's metadata in the chunk.
semantic_chunks ==
    {[chunk_type |-> "text", metadata |-> NoDict],
     [chunk_type |-> "text", metadata |-> Given(or_empty(custom_metadata))]}

\* _create_caption_chunks: a chunk per caption, its metadata naming the paper.
caption_chunk ==
    [chunk_type |-> "caption",
     metadata |-> Given([key \in {"paper_id", "caption_type"} |->
                            IF key = "paper_id" THEN store_paper_id ELSE "Figure"])]

\* process_paper from the chunking to the caption chunks.
CreateChunks ==
    /\ store_pc = "extracted"
    /\ \E text_chunk \in IF use_semantic_chunking THEN semantic_chunks ELSE {simple_chunk} :
          paper_chunks' = [i \in 1..NChunks(store_paper_id) |-> text_chunk]
                          \o [i \in 1..caption_count |-> caption_chunk]
    /\ store_pc' = "chunked"
    /\ UNCHANGED <<use_semantic_chunking, store_db, store_paper_id, custom_metadata,
                   caption_count, stored_records>>
    /\ UNCHANGED <<ingestVars, hybridVars, searchVars, chunkVars, extractVars, batchVars>>
    /\ UNCHANGED <<pineconeVars, embedVars, resumeVars>>

\* The metadata _store_chunks itself gives the i-th record.
base_metadata(i) ==
    [key \in {"paper_id", "chunk_index", "chunk_type"} |->
        IF key = "paper_id" THEN store_paper_id
        ELSE IF key = "chunk_index" THEN ToString(i - 1)
        ELSE paper_chunks[i].chunk_type]

\* The metadata of the i-th record: for ChromaDB the chunk's own metadata is
\* merged over it, for Pinecone it is not.
record_metadata(i) ==
    IF store_db = "chroma" /\ paper_chunks[i].metadata.given
    THEN updated(base_metadata(i), paper_chunks[i].metadata.dict)
    ELSE base_metadata(i)

\* _store_chunks: the records are written.
StoreChunks ==
    /\ store_pc = "chunked"
    /\ stored_records' = [i \in 1..Len(paper_chunks) |->
                             [id |-> <<store_paper_id, i - 1>>,
                              metadata |-> record_metadata(i)]]
    /\ store_pc' = "stored"
    /\ UNCHANGED <<use_semantic_chunking, store_db, store_paper_id, custom_metadata,
                   caption_count, paper_chunks>>
    /\ UNCHANGED <<ingestVars, hybridVars, searchVars, chunkVars, extractVars, batchVars>>
    /\ UNCHANGED <<pineconeVars, embedVars, resumeVars>>

(***************************************************************************)
(* The checkpoint of run_literature_batch.main and the run with --resume.  *)
(* The items are fetched in the same order in both runs; item i has key i. *)
(***************************************************************************)
\* Items fetched, at most.
MaxItems == 4
\* Threads of the largest pool of the interrupted run.
MaxThreads == 3

ResumeIdle ==
    /\ resume_pc = "off" /\ fetched = 1 /\ pool_size = 1
    /\ processed_keys = <<>> /\ checkpoint_keys = <<>> /\ submitted = <<>>

\* A batch run is under way: every item is submitted to the pool.
ResumeInit ==
    /\ resume_pc = "running"
    /\ fetched \in 1..MaxItems /\ pool_size \in 1..MaxThreads
    /\ processed_keys = <<>> /\ checkpoint_keys = <<>> /\ submitted = <<>>

in_keys(item, keys) == \E j \in 1..Len(keys) : keys[j] = item

\* The future of item i completes with True and the main thread appends its
\* key.  The pool starts the items in order, so fewer than pool_size
\* unfinished items precede a running one.
ItemSucceeds(i) ==
    /\ resume_pc = "running"
    /\ i <= fetched /\ ~in_keys(i, processed_keys)
    /\ Cardinality({j \in 1..(i - 1) : ~in_keys(j, processed_keys)}) < pool_size
    /\ processed_keys' = Append(processed_keys, i)
    /\ UNCHANGED <<resume_pc, fetched, pool_size, checkpoint_keys, submitted>>
    /\ UNCHANGED <<ingestVars, hybridVars, searchVars, chunkVars, extractVars, batchVars>>
    /\ UNCHANGED <<pineconeVars, embedVars, storeVars>>

\* KeyboardInterrupt: the checkpoint is saved and main returns.
Interrupted ==
    /\ resume_pc = "running"
    /\ checkpoint_keys' = processed_keys
    /\ resume_pc' = "interrupted"
    /\ UNCHANGED <<fetched, pool_size, processed_keys, submitted>>
    /\ UNCHANGED <<ingestVars, hybridVars, searchVars, chunkVars, extractVars, batchVars>>
    /\ UNCHANGED <<pineconeVars, embedVars, storeVars>>

\* The index at which the resumed run starts: the index of the first item
\* whose key is not in the checkpoint, 0 when there is none.
start_index(keys) ==
    IF \E i \in 1..fetched : ~in_keys(i, keys)
    THEN (CHOOSE i \in 1..fetched :
             ~in_keys(i, keys) /\ \A j \in 1..(i - 1) : in_keys(j, keys)) - 1
    ELSE 0

\* main with --resume: the checkpoint is loaded, the items before start_index
\* are dropped and the others are submitted.
Resume ==
    /\ resume_pc = "interrupted"
    /\ submitted' = [j \in 1..(fetched - start_index(checkpoint_keys)) |->
                        j + start_index(checkpoint_keys)]
    /\ processed_keys' = checkpoint_keys
    /\ resume_pc' = "resumed"
    /\ UNCHANGED <<fetched, pool_size, checkpoint_keys>>
    /\ UNCHANGED <<ingestVars, hybridVars, searchVars, chunkVars, extractVars, batchVars>>
    /\ UNCHANGED <<pineconeVars, embedVars, storeVars>>

LaterIdle == PineconeIdle /\ EmbedIdle /\ StoreIdle /\ ResumeIdle


(***************************************************************************)
(* Specifications.                                                         *)
(***************************************************************************)
\* The store directory is empty and no builder is constructed.
IngestIdle == IngestInit /\ kind = "bge" /\ db = "chroma" /\ dupRaises = FALSE

Init == IngestInit /\ HybridIdle /\ SearchIdle /\ ChunkIdle /\ ExtractIdle /\ BatchIdle /\ LaterIdle

Next == \E w \in Workers : WorkerStep(w)

\* Two workers, each with a builder instance of its own, on one store directory.
Spec == Init /\ [][Next]_vars

NextSeq == WorkerStep(1)

\* One worker: a single process that ingests, may fail or be interrupted, is
\* started again and ingests again.
SpecSeq == Init /\ [][NextSeq]_vars

InitHybrid == IngestIdle /\ HybridInit /\ SearchIdle /\ ChunkIdle /\ ExtractIdle /\ BatchIdle /\ LaterIdle

NextHybrid ==
    \/ \E hits \in AdapterAnswers(MaxHits) : TextSearch(hits)
    \/ \E hits \in AdapterAnswers(MaxHits) : ImageSearch(hits)
    \/ Rank

\* One search_comprehensive call.
SpecHybrid == InitHybrid /\ [][NextHybrid]_vars

InitSearch == IngestIdle /\ HybridIdle /\ SearchInit /\ ChunkIdle /\ ExtractIdle /\ BatchIdle /\ LaterIdle

NextSearch ==
    \E answer \in StoreAnswers("chroma") \cup StoreAnswers("pinecone") : Search(answer)

\* One search call of a builder.
SpecSearch == InitSearch /\ [][NextSearch]_vars

InitChunk == IngestIdle /\ HybridIdle /\ SearchIdle /\ ChunkInit /\ ExtractIdle /\ BatchIdle /\ LaterIdle

NextChunk == ScanLine \/ LastSection

\* One chunk_by_sections call.
SpecChunk == InitChunk /\ [][NextChunk]_vars

(***************************************************************************)
(* Claims about ingestion.                                                 *)
(***************************************************************************)
\* A step of a process_paper call of w (cur'[w] is the paper of the call).
CallStep(w) ==
    /\ pc[w] # "unbuilt"
    /\ pc'[w] # "unbuilt"
    /\ <<pc[w], cur[w], uploaded[w], result[w], reingest[w]>>
         # <<pc'[w], cur'[w], uploaded'[w], result'[w], reingest'[w]>>

OpenStep(w) ==
    \/ pc[w] = "unbuilt" /\ pc'[w] = "idle"
    \/ pc[w] # "unbuilt" /\ ~hasColl[w] /\ hasColl'[w]

\* C2: opening a collection is create-or-get: every record stored before the
\* step is still stored after it.
C2_OpenKeepsRecords ==
    [][\A w \in Workers :
         OpenStep(w) =>
            \A b \in Backends : \A id \in ChunkIds : recs'[b][id] >= recs[b][id]]_vars

\* C3: once two workers, both constructed before either recorded its paper,
\* have each returned successfully from ingesting a paper of their own (and
\* nothing else), all records of both papers are stored and both papers are in
\* the processed-papers file.
C3_NoLostWrite ==
    ( /\ \A w \in Workers :
            /\ pc[w] = "idle" /\ result[w] = "ok"
            /\ ingested[w] = {cur[w]}
            /\ (kind \in Tracking) => processed_papers[w] = {cur[w]}
      /\ cur[1] # cur[2] )
    => /\ \A w \in Workers : \A b \in Written : \A id \in PaperIds(cur[w]) : recs[b][id] = 1
       /\ (kind \in Tracking) => ({cur[1], cur[2]} \subseteq processedFile)

\* The step in which the last store call of a process_paper call returns.
StoreDone(w) ==
    /\ pc[w] \in {"extracted", "storing"}
    /\ pc'[w] = "stored" \/ (pc'[w] = "idle" /\ result'[w] = "ok")

\* C4: a paper is recorded as processed, and a call for it skipped, only after
\* some call stored all its records (so not after a call that failed or was
\* interrupted part-way); and when a call has stored all its records, every
\* chunk id of the paper holds exactly one record.
C4_RetryCompletes ==
    [][/\ processedFile' \subseteq succeeded'
       /\ \A w \in Workers :
            /\ processed_papers'[w] \subseteq succeeded'
            /\ result'[w] = "skipped" => cur'[w] \in succeeded'
            /\ StoreDone(w) =>
                  \A b \in Written : \A id \in PaperIds(cur[w]) : recs'[b][id] = 1]_vars

\* C4 witness: a paper whose ingestion failed or was interrupted after a part
\* of its records was uploaded has been ingested again, completely.
C4_Witness ==
    \E p \in failedPartial :
        /\ p \in succeeded
        /\ p \in processedFile
        /\ \A id \in PaperIds(p) : recs["pinecone"][id] = 1

\* C6: a builder is never constructed on an existing collection whose
\* dimensionality differs from that of the builder's embedding model.
C6_MismatchRaisesAtConstruction ==
    [][\A w \in Workers :
         (pc[w] = "unbuilt" /\ pc'[w] = "idle") =>
            \A b \in Written :
                ~(exists'[b] /\ cdim'[b] # 0 /\ cdim'[b] # embedding_dim'[w])]_vars

(***************************************************************************)
(* Claims about chunking.                                                  *)
(***************************************************************************)
\* C5: a chunk_by_sections call on a text with at least one word and with
\* overlap >= chunk_size never returns normally: it raises, and no chunk is
\* returned.
C5_OverlapRaises ==
    (chunk_pc \in {"done", "raised"} /\ overlap >= chunk_size /\ words_of(text) # <<>>)
    => (chunk_pc = "raised" /\ chunks = <<>>)

(***************************************************************************)
(* Claims about hybrid search.                                             *)
(***************************************************************************)
\* The scenario of C7: a hybrid search with equal positive weights has
\* returned; paper one ("p1") has a text hit scoring 0.9 and an image hit
\* scoring 0.8, paper two ("p2") only a text hit scoring 0.95.
C7_Scenario ==
    /\ hybrid_pc = "done" /\ mode = "hybrid"
    /\ text_weight = image_weight /\ text_weight > 0
    /\ text_hits = <<[paper_id |-> "p2", score |-> 95], [paper_id |-> "p1", score |-> 90]>>
    /\ image_hits = <<[paper_id |-> "p1", score |-> 80]>>

\* C7 as stated: in the scenario, paper two's hit is ranked above paper one's
\* hits.
C7_PaperTwoFirst ==
    C7_Scenario => (results # <<>> /\ results[1].paper_id = "p2")

\* C7 as amended: in the scenario, paper one's text hit is ranked first, with
\* the combined score 0.9 w + 0.8 w; paper two's hit follows it when k >= 2 and
\* is not returned when k = 1; paper one's image hit is not returned.
C7_PaperOneFirst ==
    C7_Scenario =>
        /\ Len(results) = Min(k, 2)
        /\ results[1].paper_id = "p1" /\ results[1].modality = "text"
        /\ results[1].combined_score = (90 + 80) * text_weight
        /\ k >= 2 => (results[2].paper_id = "p2"
                      /\ results[2].combined_score = 95 * text_weight)

\* C7 witness: the scenario with both papers returned.
C7_Witness == C7_Scenario /\ k >= 2 /\ Len(results) = 2

\* The highest weighted score among the hits of paper p in an adapter's
\* answer, 0 if it has none there.
BestWeighted(hits, p, weight) ==
    LET S == {hits[i].score * weight : i \in {j \in 1..Len(hits) : hits[j].paper_id = p}}
    IN  IF S = {} THEN 0 ELSE SetMax(S)

\* C8: in hybrid mode the combined score of every paper, and of every returned
\* hit, is the paper's best weighted text score plus its best weighted image
\* score, and the combined scores of the returned hits never increase along
\* the list.
C8_CombinedScoreRanks ==
    (hybrid_pc = "done" /\ mode = "hybrid") =>
        /\ \A i \in 1..Len(merged) :
              merged[i].combined_score =
                  BestWeighted(text_hits, merged[i].paper_id, text_weight)
                  + BestWeighted(image_hits, merged[i].paper_id, image_weight)
        /\ \A i \in 1..Len(results) :
              results[i].combined_score =
                  BestWeighted(text_hits, results[i].paper_id, text_weight)
                  + BestWeighted(image_hits, results[i].paper_id, image_weight)
        /\ \A i \in 1..(Len(results) - 1) :
              results[i].combined_score >= results[i + 1].combined_score

\* C8 witness: a hybrid search returned the text and the image hit of a paper
\* that has both ahead of the hit of a paper that came first in the text
\* answer but has the lower combined score.
C8_Witness ==
    /\ hybrid_pc = "done" /\ mode = "hybrid"
    /\ Len(results) = 3
    /\ results[1].modality = "text" /\ results[2].modality = "image"
    /\ results[1].paper_id = results[2].paper_id
    /\ results[3].paper_id = text_hits[1].paper_id
    /\ results[3].paper_id # results[1].paper_id
    /\ results[1].combined_score > results[3].combined_score

\* The numbers of hits of paper p in the two answers.
TextMatches(p) == Cardinality({i \in 1..Len(text_hits) : text_hits[i].paper_id = p})
ImageMatches(p) == Cardinality({i \in 1..Len(image_hits) : image_hits[i].paper_id = p})

\* The loop over the ranked papers reached paper p: it appended a hit of p.
Emitted(p) == \E i \in 1..Len(final_results) : final_results[i].paper_id = p

\* The loop appended an image hit of paper p.
ImageAppended(p) ==
    \E i \in 1..Len(final_results) :
        final_results[i].paper_id = p /\ final_results[i].modality = "image"

\* C9 as stated: for every paper the loop reached, an image hit of the paper
\* is returned whenever the paper has an image hit and at least as many image
\* hits as text hits (taken for the searches that collected fewer than k hits,
\* so that every hit the loop appended is returned).
C9_ImageWhenAtLeastAsMany ==
    (hybrid_pc = "done" /\ mode = "hybrid" /\ Len(final_results) < k) =>
        \A p \in Papers :
            (Emitted(p) /\ ImageMatches(p) > 0 /\ ImageMatches(p) >= TextMatches(p))
            => \E i \in 1..Len(results) :
                  results[i].paper_id = p /\ results[i].modality = "image"

\* C9 as amended: for every paper the loop reached, the paper's first image
\* hit is appended exactly when the paper has an image hit and either no text
\* hit or strictly more image hits than text hits; and the list returned is the
\* first k of the appended hits.
C9_ImageWhenStrictlyMore ==
    (hybrid_pc = "done" /\ mode = "hybrid") =>
        /\ \A p \in Papers :
              Emitted(p) =>
                 /\ ImageAppended(p) <=>
                       (ImageMatches(p) > 0
                        /\ (TextMatches(p) = 0 \/ ImageMatches(p) > TextMatches(p)))
                 /\ \A i \in 1..Len(final_results) :
                       (final_results[i].paper_id = p /\ final_results[i].modality = "image")
                       => final_results[i].id =
                             <<"image", CHOOSE j \in 1..Len(image_hits) :
                                           /\ image_hits[j].paper_id = p
                                           /\ \A h \in 1..(j - 1) : image_hits[h].paper_id # p>>
        /\ results = SubSeq(final_results, 1, Min(k, Len(final_results)))

\* C9 witness: the loop reached a paper with as many image hits as text hits
\* (one or more of each), with room left in the list, and appended no image
\* hit for it.
C9_Witness ==
    /\ hybrid_pc = "done" /\ mode = "hybrid"
    /\ Len(final_results) < k
    /\ \E p \in Papers :
          /\ Emitted(p)
          /\ ImageMatches(p) > 0 /\ ImageMatches(p) = TextMatches(p)
          /\ ~ImageAppended(p)

(***************************************************************************)
(* Claims about the search operations.                                     *)
(***************************************************************************)
\* C10: whatever the class and the backend, every result of a search has a
\* score, which is 1 - d for a distance d of the local store and s for a score
\* s of the remote store, and has no distance.
C10_ScoreNormalized ==
    search_pc = "done" =>
        \A i \in 1..Len(formatted_results) :
            /\ "score" \in DOMAIN formatted_results[i]
            /\ "distance" \notin DOMAIN formatted_results[i]
            /\ formatted_results[i].score =
                  IF queried_db(search_cls, search_db) = "chroma"
                  THEN 100 - store_answer[i] ELSE store_answer[i]

\* C11: every score a search result carries lies between 0 and 1 (0 and 100
\* hundredths), whatever cosine distance (0 to 2) the local store and whatever
\* cosine score (-1 to 1) the remote store reported.
C11_ScoreInUnitRange ==
    search_pc = "done" =>
        \A i \in 1..Len(formatted_results) :
            "score" \in DOMAIN formatted_results[i]
            => (formatted_results[i].score >= 0 /\ formatted_results[i].score <= 100)

InitExtract == IngestIdle /\ HybridIdle /\ SearchIdle /\ ChunkIdle /\ ExtractInit /\ BatchIdle /\ LaterIdle

NextExtract ==
    \/ \E cap \in Caps : ExtractText(cap)
    \/ ExtractImages
    \/ \E cap \in Caps, fails \in SUBSET Steps : ExtractTextAndImages(cap, fails)

\* One call of a function of text_extractor.py on a PDF.
SpecExtract == InitExtract /\ [][NextExtract]_vars

InitFeatured == IngestIdle /\ HybridIdle /\ SearchIdle /\ ChunkIdle /\ RankInit /\ BatchIdle /\ LaterIdle

NextFeatured == IdentifyKeyFigures \/ SelectFeaturedImage

\* One ranking call on caller-made lists.
SpecFeatured == InitFeatured /\ [][NextFeatured]_vars

InitMatch ==
    /\ IngestIdle /\ HybridIdle /\ SearchIdle /\ ChunkIdle /\ MatchInit /\ BatchIdle
    /\ LaterIdle

NextMatch == MatchImagesWithCaptions

\* One match_images_with_captions call on what the extractors return.
SpecMatch == InitMatch /\ [][NextMatch]_vars

InitBatch ==
    IngestIdle /\ HybridIdle /\ SearchIdle /\ ChunkIdle /\ ExtractIdle /\ BatchInit /\ LaterIdle

NextBatch ==
    \/ ProcessPaperOfBatch
    \/ ProcessPdfOfBatch
    \/ LoopEnds
    \/ \E i \in 1..Len(task) : TaskStarts(i)
    \/ \E i \in 1..Len(task) : TaskEnds(i)
    \/ \E i \in 1..Len(task) : FutureHandled(i)
    \/ PoolEnds

\* One batch run.  The interpreter and the threads of the pool keep running
\* and every call for one paper ends, so a step that can be taken is
\* eventually taken.
SpecBatch == InitBatch /\ [][NextBatch]_vars /\ WF_vars(NextBatch)

InitPinecone ==
    /\ IngestIdle /\ HybridIdle /\ SearchIdle /\ ChunkIdle /\ ExtractIdle /\ BatchIdle
    /\ PineconeInit /\ EmbedIdle /\ StoreIdle /\ ResumeIdle

NextPinecone == PineconeStep \/ IndexBecomesReady

\* The construction of one builder for Pinecone.  The interpreter keeps
\* running and every client call returns or raises, so the constructor takes
\* its next step; the service is under no obligation.
SpecPinecone == InitPinecone /\ [][NextPinecone]_vars /\ WF_vars(PineconeStep)

InitEmbed ==
    /\ IngestIdle /\ HybridIdle /\ SearchIdle /\ ChunkIdle /\ ExtractIdle /\ BatchIdle
    /\ PineconeIdle /\ EmbedInit /\ StoreIdle /\ ResumeIdle

NextEmbed ==
    \/ EncodeOrZero
    \/ KeepValidPath
    \/ OpenOrWhite
    \/ ReturnEmbeddings
    \/ EncodeValidPaths
    \/ EncodeImages

\* One call of an image-embedding generator.
SpecEmbed == InitEmbed /\ [][NextEmbed]_vars

InitStore ==
    /\ IngestIdle /\ HybridIdle /\ SearchIdle /\ ChunkIdle /\ ExtractIdle /\ BatchIdle
    /\ PineconeIdle /\ EmbedIdle /\ StoreInit /\ ResumeIdle

NextStore == CreateChunks \/ StoreChunks

\* One process_paper call of TextRAGBGEM3 on a paper whose text was extracted.
SpecStore == InitStore /\ [][NextStore]_vars

InitResume ==
    /\ IngestIdle /\ HybridIdle /\ SearchIdle /\ ChunkIdle /\ ExtractIdle /\ BatchIdle
    /\ PineconeIdle /\ EmbedIdle /\ StoreIdle /\ ResumeInit

NextResume ==
    \/ \E i \in 1..MaxItems : ItemSucceeds(i)
    \/ Interrupted
    \/ Resume

\* A batch run that is interrupted, and the run started with --resume after it.
SpecResume == InitResume /\ [][NextResume]_vars

(***************************************************************************)
(* Claims about the extraction from a PDF.                                 *)
(***************************************************************************)
\* A call of extract_text_and_images returned and none of its steps raised.
ExtractedAll ==
    extract_pc = "returned" /\ called = "extract_text_and_images" /\ failed = {}

\* The reasons of the featured image.
Reasons ==
    IF featured_image = NoImage THEN {}
    ELSE {featured_image.selection_reason[i] : i \in 1..Len(featured_image.selection_reason)}

\* Three pages, on page 1 the caption "Figure 1: Overview of the pipeline" and
\* a 500x500 image, no other caption block and no other image.
C12_Scenario ==
    /\ page_count(pdf) = 3
    /\ pdf.pages[1].blocks = <<FigureOneOverview>>
    /\ pdf.pages[1].embedded = <<[width |-> 500, height |-> 500]>>
    /\ \A i \in 2..3 : pdf.pages[i].blocks = <<>> /\ pdf.pages[i].embedded = <<>>

\* C12: for the three-page PDF with "Figure 1: Overview of the pipeline" and
\* one 500x500 image on page 1, extract_text_and_images returns that embedded
\* image as the featured image, with a selection reason that names a key
\* figure or Figure 1.
C12_FeaturedIsFigureOne ==
    (ExtractedAll /\ C12_Scenario) =>
        /\ featured_image.filename = <<"page", 1, "_img", 1>>
        /\ Reasons \cap {"Figure 1", "Early key figure"} /= {}

\* The place in the ranking of the image whose matched caption is t.
RankOf(t) == CHOOSE i \in 1..Len(prioritized) : prioritized[i].caption = t

\* The images of the call are matched to "Graphical Abstract", "Figure 1:
\* results" and "Fig. 7", one each, and agree in page and in pixel area.
C13_Scenario ==
    /\ {images[x].caption : x \in 1..Len(images)} = {RankTexts[j] : j \in 1..Len(RankTexts)}
    /\ \A x, y \in 1..Len(images) :
          /\ images[x].page = images[y].page
          /\ images[x].width * images[x].height = images[y].width * images[y].height

\* C13: of three images of one page and one pixel area matched to "Graphical
\* Abstract", "Figure 1: results" and "Fig. 7", identify_key_figures ranks the
\* first strictly above the second and the second strictly above the third.
C13_RankedByMatchedCaption ==
    (extract_pc = "returned" /\ called = "identify_key_figures" /\ C13_Scenario) =>
        /\ RankOf(RankTexts[1]) < RankOf(RankTexts[2])
        /\ RankOf(RankTexts[2]) < RankOf(RankTexts[3])
        /\ prioritized[RankOf(RankTexts[1])].priority > prioritized[RankOf(RankTexts[2])].priority
        /\ prioritized[RankOf(RankTexts[2])].priority > prioritized[RankOf(RankTexts[3])].priority

\* The texts, in lower case, of the returned captions within one page of the
\* featured image.
NearCaptionTexts ==
    {lower(captions[j].text) : j \in {x \in 1..Len(captions) :
                                        abs(captions[x].page - featured_image.page) <= 1}}

\* C14: the selection reason names the rule that applied: "Graphical Abstract"
\* only with a caption within one page that contains "graphical abstract",
\* "Schema/Schematic" only with one that contains schema or scheme, "Figure 1"
\* only with one that names figure 1.
C14_ReasonNamesRule ==
    (ExtractedAll /\ featured_image /= NoImage) =>
        /\ "Graphical Abstract" \in Reasons =>
              \E t \in NearCaptionTexts : contains(t, <<"g", "r", "a", "p", "h", "i", "c", "a", "l", " ", "a", "b", "s", "t", "r", "a", "c", "t">>)
        /\ "Schema/Schematic" \in Reasons =>
              \E t \in NearCaptionTexts : contains_any(t, {<<"s", "c", "h", "e", "m", "a">>, <<"s", "c", "h", "e", "m", "e">>})
        /\ "Figure 1" \in Reasons =>
              \E t \in NearCaptionTexts :
                  contains_any(t, {<<"f", "i", "g", ".", " ", "1">>, <<"f", "i", "g", "u", "r", "e", " ", "1">>, <<"f", "i", "g", " ", "1">>})

\* A call of extract_images_from_pdf returned.
ExtractedImages == extract_pc = "returned" /\ called = "extract_images_from_pdf"

\* The number of embedded images of the PDF, and the pages that hold one of
\* w x h pixels.
EmbeddedCount == sum_seq([i \in 1..page_count(pdf) |-> Len(pdf.pages[i].embedded)])

PagesWith(w, h) ==
    {i \in 1..page_count(pdf) :
        \E j \in 1..Len(pdf.pages[i].embedded) :
            pdf.pages[i].embedded[j] = [width |-> w, height |-> h]}

\* The embedded images of the PDF are one of 50x50 and one of 400x600.
C15_Scenario ==
    EmbeddedCount = 2 /\ PagesWith(50, 50) /= {} /\ PagesWith(400, 600) /= {}

\* C15: of a PDF whose embedded images are one of 50x50 and one of 400x600,
\* wherever they lie and whatever text the pages hold, extract_images_from_pdf
\* returns exactly one image, the larger one.
C15_OnlyLargerImage ==
    (ExtractedImages /\ C15_Scenario) =>
        /\ Len(images) = 1
        /\ images[1].extraction_method = "standard"
        /\ images[1].width = 400 /\ images[1].height = 600

\* C16: every image extract_images_from_pdf returns, embedded or rendered
\* page, is more than 200 pixels wide and more than 200 pixels high.
C16_AboveSizeThreshold ==
    ExtractedImages =>
        \A x \in 1..Len(images) : images[x].width > 200 /\ images[x].height > 200

\* No page of the PDF holds any text.
NoTextAnywhere == \A i \in 1..page_count(pdf) : page_text_len(pdf.pages[i]) = 0

\* C17: when no page yields text under any strategy, extract_text_from_pdf
\* raises instead of returning a text.
C17_NoTextRaises ==
    (called = "extract_text_from_pdf" /\ NoTextAnywhere) => extract_pc = "raised"

\* C18: with max_pages = N >= 1, extract_text_and_images returns no section of
\* text, no image and no caption of a page above N.
C18_CapBoundsPages ==
    (extract_pc = "returned" /\ called = "extract_text_and_images" /\ max_pages >= 1) =>
        /\ \A j \in 1..Len(text_content.sections) : text_content.sections[j] <= max_pages
        /\ \A x \in 1..Len(images) : images[x].page <= max_pages
        /\ \A j \in 1..Len(captions) : captions[j].page <= max_pages

\* C19: extract_text_and_images raises only when the text extraction raises;
\* when a later step raises, the call still returns the extracted text, with
\* no image for a failed image extraction, no caption for a failed caption
\* extraction, the unmatched images for a failed matching and no featured
\* image for a failed selection.
C19_StepFailuresAbsorbed ==
    called = "extract_text_and_images" =>
        /\ extract_pc = "raised" <=> extract_text_from_pdf(pdf, max_pages) = Raised
        /\ extract_pc = "raised" => failed = {}
        /\ extract_pc = "returned" =>
              /\ text_content = extract_text_from_pdf(pdf, max_pages)
              /\ "images" \in failed => images = <<>>
              /\ "captions" \in failed => captions = <<>>
              /\ "matching" \in failed => images = extract_images_from_pdf(pdf)
              /\ "featured" \in failed => featured_image = NoImage

\* The image extraction of a PDF with images raised, and the call returned
\* the text and the captions.
C19_Witness ==
    /\ called = "extract_text_and_images" /\ extract_pc = "returned"
    /\ failed = {"images"}
    /\ extract_images_from_pdf(pdf) /= <<>>
    /\ text_content.outcome = "return" /\ text_content.chars > 0
    /\ captions /= <<>>

(***************************************************************************)
(* Claims about the batch loops.                                           *)
(***************************************************************************)
\* The loop has ended and every paper of the batch is settled.
BatchSettled ==
    batch_pc = "done" /\ \A i \in 1..Len(task) : task[i] \in Settled

\* C20: in a batch run, whatever fails for one paper, every paper is
\* eventually attempted and ends processed, skipped or failed, and the loop
\* terminates.
C20_EveryPaperSettled == <>[]BatchSettled

\* The loop has ended, a paper failed and a paper after it was processed.
C20_Witness ==
    /\ BatchSettled
    /\ \E i, j \in 1..Len(task) : i < j /\ task[i] = "failed" /\ task[j] = "processed"

(***************************************************************************)
(* Claims about the initialisation of a remote index.                      *)
(***************************************************************************)
\* C21: the construction of a builder ends (connected, switched off or
\* raised) whatever the service does, even if the index it created never
\* reports ready.
C21_ConstructionEnds == <>(pinecone_pc \in PineconeEnds)

(***************************************************************************)
(* Claims about image-embedding generation.                                *)
(***************************************************************************)
\* C22: what the call returns holds one vector per input image, of the
\* model's dimensionality: the encoding of the i-th image at position i, or
\* zeros at the position of an image that is missing or cannot be decoded.
C22_OneVectorPerImage ==
    embed_pc = "returned" =>
       /\ Len(embeddings) = Len(image_files)
       /\ \A i \in 1..Len(embeddings) :
             embeddings[i] = IF image_files[i] = "ok" THEN encoded(i) ELSE zeros

(***************************************************************************)
(* Claims about the chunks of one document.                                *)
(***************************************************************************)
\* C23: the chunks chunk_by_sections returns carry chunk_index 0, 1, 2, ... in
\* the order of the list: the j-th chunk has chunk_index j - 1.
C23_IndexInEmissionOrder ==
    chunk_pc = "done" => \A j \in 1..Len(chunks) : chunks[j].chunk_index = j - 1

(***************************************************************************)
(* Claims about the metadata of the stored records.                        *)
(***************************************************************************)
\* C24: every record process_paper(paper_id, ...) writes has a paper_id
\* metadata field equal to that paper_id, whatever the custom metadata.
C24_RecordNamesItsPaper ==
    \A i \in 1..Len(stored_records) :
       /\ "paper_id" \in DOMAIN stored_records[i].metadata
       /\ stored_records[i].metadata["paper_id"] = store_paper_id

(***************************************************************************)
(* Claims about the processed-papers set.                                  *)
(***************************************************************************)
\* Every record of paper p is in the stores the builder writes.
Holds(p) == \A b \in Written : \A id \in PaperIds(p) : recs[b][id] > 0

\* C25: whenever a builder stands between two process_paper calls, every
\* paper of its processed-papers set has its records in the store, and a call
\* that was skipped as already processed was for a paper whose records are
\* there.
C25_ProcessedPapersAreStored ==
    \A w \in Workers :
       pc[w] = "idle" =>
          /\ \A p \in processed_papers[w] : Holds(p)
          /\ result[w] = "skipped" => Holds(cur[w])

(***************************************************************************)
(* Claims about resuming a batch run.                                      *)
(***************************************************************************)
\* C26: the run started with --resume submits no item whose key is in the
\* processed_keys of the checkpoint.
C26_NoProcessedItemResubmitted ==
    resume_pc = "resumed" =>
       \A j \in 1..Len(submitted) : ~in_keys(submitted[j], checkpoint_keys)

(***************************************************************************)
(* Claims about the matching of images and captions.                       *)
(***************************************************************************)
\* A match_images_with_captions call returned.
Matched == extract_pc = "returned" /\ called = "match_images_with_captions"

\* The Figure/Fig. prefix pattern recognises the text.
figure_prefixed(t) == pattern_matches(t, caption_patterns[1]) /= {}

\* Same page 100, adjacent page 50, in tenths.
proximity(img, cap) == IF cap.page = img.page THEN 1000 ELSE 500

\* C27: a caption the Figure/Fig. prefix pattern recognises, "Fig." with a
\* period included, has the flat bonus of 20 in its matching score: when it
\* is attached to an image, the confidence is that of the proximity score,
\* the bonus and a tenth of the priority.
C27_FigurePrefixGetsBonus ==
    Matched =>
       \A x \in 1..Len(prioritized) : \A j \in 1..Len(captions) :
          ( /\ prioritized[x].caption = captions[j].text
            /\ abs(captions[j].page - images[x].page) <= 1
            /\ figure_prefixed(captions[j].text) )
          => prioritized[x].caption_confidence
                = Min(proximity(images[x], captions[j]) + 200 + captions[j].priority, 2000)

\* A call of extract_text_and_images returned.
Extracted == extract_pc = "returned" /\ called = "extract_text_and_images"

\* C28: the images extract_images_from_pdf produces carry no bounding box, so
\* with the captions of extract_image_captions the matching gives every image
\* a caption_confidence of at most 0.65 (1300 two-thousandths): none is of
\* high confidence, and extract_text_and_images selects the featured image
\* from the full image list.
C28_NeverHighConfidence ==
    Extracted =>
        /\ \A x \in 1..Len(images) : caption_confidence_of(images[x]) <= 1300
        /\ high_confidence(images) = <<>>
        /\ (images /= <<>> /\ "featured" \notin failed)
              => featured_image = select_featured_image(images, captions)

\* A call returned an image matched with confidence 0.65 and a featured image.
C28_Witness ==
    /\ Extracted
    /\ \E x \in 1..Len(images) : caption_confidence_of(images[x]) = 1300
    /\ featured_image /= NoImage

\* The captions within one page of image img, by position in the list.
near(img) == {j \in 1..Len(captions) : abs(captions[j].page - img.page) <= 1}

\* The captions of near(img) with the highest matching score.
top_near(img) ==
    {j \in near(img) :
        \A y \in near(img) : match_score(img, captions[y]) <= match_score(img, captions[j])}

\* C29: match_images_with_captions returns one image for each input image, in
\* the same order and with the fields of the input; each has the caption of
\* the highest score among those within one page, the earliest on a tie, and
\* none when no caption is within one page; caption_confidence is
\* min(score / 200, 1), between 0 and 1, and 0 exactly when no caption is
\* attached; the input images are left as they were.
C29_BestCaptionAttached ==
    Matched =>
        /\ Len(prioritized) = Len(images)
        /\ images = extract_images_from_pdf(pdf)
        /\ \A x \in 1..Len(images) :
              LET img == images[x]
                  out == prioritized[x]
              IN  /\ \A f \in DOMAIN img : out[f] = img[f]
                  /\ DOMAIN out = DOMAIN img \cup {"caption", "caption_confidence"}
                  /\ out.caption_confidence \in 0..2000
                  /\ (out.caption_confidence = 0) <=> (out.caption = NoCaption)
                  /\ IF near(img) = {}
                     THEN out.caption = NoCaption
                     ELSE LET j == CHOOSE j \in top_near(img) : \A y \in top_near(img) : j <= y
                          IN  /\ out.caption = captions[j].text
                              /\ out.caption_confidence
                                    = Min(match_score(img, captions[j]), 2000)

\* A call returned with an image that two captions of different texts score
\* highest for and with an image no caption is within one page of.
C29_Witness ==
    /\ Matched
    /\ \E x \in 1..Len(images) :
          \E j, y \in top_near(images[x]) : captions[j].text /= captions[y].text
    /\ \E x \in 1..Len(images) : near(images[x]) = {} /\ prioritized[x].caption = NoCaption

\* The chunks cs, from the j-th on, are slices of the words ws: each begins
\* after the beginning of the chunk before it (which began at word s_before
\* and ended at word e_before) and no later than the word after its end, and
\* the last chunk ends at the last word.
RECURSIVE chunks_cover(_, _, _, _, _)
chunks_cover(cs, ws, j, s_before, e_before) ==
    IF j > Len(cs)
    THEN e_before = Len(ws)
    ELSE \E s \in (s_before + 1)..(e_before + 1) :
            LET e == s + Len(cs[j].text) - 1
            IN  /\ e <= Len(ws)
                /\ SubSeq(ws, s, e) = cs[j].text
                /\ chunks_cover(cs, ws, j + 1, s, e)

\* C30: with 0 <= overlap < chunk_size a chunk_by_sections call returns, and
\* no word is lost: the chunks are slices of the words of the text that begin
\* one after the other and leave no word between them or after the last, and
\* every chunk holds between 1 and chunk_size words.
C30_NoWordLost ==
    (chunk_pc \in {"done", "raised"} /\ overlap < chunk_size) =>
       /\ chunk_pc = "done"
       /\ chunks_cover(chunks, words_of(text), 1, 0, 0)
       /\ \A j \in 1..Len(chunks) :
             /\ Len(chunks[j].text) \in 1..chunk_size
             /\ chunks[j].word_count = Len(chunks[j].text)

\* A text of four words in two sections was chunked with an overlap.
C30_Witness ==
    /\ chunk_pc = "done" /\ chunk_size = 2 /\ overlap = 1
    /\ Len(words_of(text)) = 4
    /\ Len(chunks) >= 4
    /\ \E i, j \in 1..Len(chunks) : chunks[i].section /= chunks[j].section

====
